---- MODULE Spec2Model ----
(***************************************************************************)
(* Model of the certifiable-inference numeric core: Q16.16 fixed-point     *)
(* scalar arithmetic (src/core/fixed_point.c) and the matrix operations    *)
(* built on it (src/core/matrix.c).                                        *)
(*                                                                         *)
(* TLC's integers are 32 bits wide, so an int64_t of the C code is kept as *)
(* a record [h, m, l] with value h * 2^32 + m * 2^16 + l, where m and l    *)
(* are in 0..65535 and h is a signed 32-bit integer exactly when the value *)
(* is in the int64_t range.  A fixed_t (int32_t) is a plain integer.       *)
(***************************************************************************)
EXTENDS Integers, Sequences, FiniteSets, TLC

VARIABLES
    pc,      \* "call": the caller is about to invoke an operation; "done": it
             \* returned; "trap": the build aborted on undefined behaviour;
             \* "ready": the caller holds an initialised table; "second": a
             \* call was made on the first table and is due on the second
    mem,     \* the caller-owned buffers: buffer name -> (cell index -> fixed_t)
    view,    \* the fx_matrix_t objects: view name -> [data, rows, cols]
    mem0,    \* history: mem when the operation was invoked
    view0,   \* history: view when the operation was invoked
    arg,     \* the scalar operands [a, b] of a fixed-point call
    call,    \* the operation invoked and its pointer arguments
    ret,     \* the value the operation returned (a fixed_t or a result code)
    thr,     \* concurrent invocations: thread -> its position and its locals
    table,   \* the d_table_t and the entries of its pool
    table0,  \* history: table when the operation was invoked
    out_value, \* the int32_t that d_table_get's out_value points to
    inserted, \* history: key -> value of the inserts that returned D_TABLE_OK
    table2,  \* the d_table_t and the pool of a second run of the same calls
    trace    \* the events of the operation in order: the callbacks that
             \* d_table_iterate made, the cells a stepwise fx_matrix_mul touched

vars == <<pc, mem, view, mem0, view0, arg, call, ret, thr, table, table0,
          out_value, inserted, table2, trace>>

\* The variables of the threads and of the table, for the operations that do
\* not touch them.
tableVars == <<table, table0, out_value, inserted, table2, trace>>

(***************************************************************************)
(* Program constants (include/fixed_point.h, asserted by the unit tests).  *)
(***************************************************************************)
FIXED_SHIFT == 16
FIXED_ONE == 65536
FIXED_HALF == 32768
FIXED_ZERO == 0

(***************************************************************************)
(* Bounds of the model.                                                    *)
(***************************************************************************)
\* Largest row or column count of the matrices handed to fx_matrix_mul.
MaxDim == 2

\* Number of cells of each caller buffer that the model tracks (cells
\* 0..BufLen-1): enough for a MaxDim x MaxDim matrix.
BufLen == MaxDim * MaxDim
Cells == 0 .. (BufLen - 1)

(***************************************************************************)
(* Machine integers.                                                       *)
(***************************************************************************)
Base16 == 2^FIXED_SHIFT
INT32_MAX == 32767 * Base16 + 65535
INT32_MIN == -INT32_MAX - 1
UINT16_MAX == Base16 - 1
NULL == "NULL"

\* x = Hi16(x) * 2^16 + Lo16(x), Lo16(x) in 0..65535 (floor division).
Lo16(x) == x % Base16
Hi16(x) == x \div Base16
\* The signed reading of a 16-bit pattern.
Sgn16(u) == IF u >= 32768 THEN u - Base16 ELSE u

\* The 32-bit product x * y of two values in 0..65535, as [hi, lo] with
\* x * y = hi * 2^16 + lo; no intermediate value leaves 31 bits.
UMul16(x, y) ==
    LET p == x * (y \div 256)
        q == x * (y % 256)
        t == (p % 256) * 256 + q
    IN  [hi |-> (p \div 256) + (t \div Base16), lo |-> t % Base16]

\* (int64_t)x for a 32-bit x: sign extension.
I64(x) == [h |-> IF x < 0 THEN -1 ELSE 0, m |-> Lo16(Hi16(x)), l |-> Lo16(x)]

\* (int64_t)a * (int64_t)b for 32-bit a, b; |a * b| <= 2^62, so it never
\* overflows.  With a = a1 * 2^16 + a0 and b = b1 * 2^16 + b0:
\* a * b = a1*b1 * 2^32 + (a1*b0 + a0*b1) * 2^16 + a0*b0.
Mul64(a, b) ==
    LET a1 == Hi16(a)
        a0 == Lo16(a)
        b1 == Hi16(b)
        b0 == Lo16(b)
        ll == UMul16(a0, b0)
        m1 == a1 * b0
        m2 == a0 * b1
        d1 == ll.hi + Lo16(m1) + Lo16(m2)
    IN  [h |-> a1 * b1 + Hi16(m1) + Hi16(m2) + Hi16(d1),
         m |-> Lo16(d1),
         l |-> ll.lo]

\* The digits of x + y before the top half is narrowed: the sum's low 48 bits
\* (l, m, h0) and the signed top digit h1, all exact.
Add64Digits(x, y) ==
    LET l == x.l + y.l
        m == x.m + y.m + Hi16(l)
        h0 == Lo16(x.h) + Lo16(y.h) + Hi16(m)
    IN  [l |-> Lo16(l), m |-> Lo16(m), h0 |-> Lo16(h0),
         h1 |-> Hi16(x.h) + Hi16(y.h) + Hi16(h0)]

\* x + y leaves the int64_t range: undefined behaviour in C.
Add64Overflows(x, y) ==
    LET d == Add64Digits(x, y) IN d.h1 < -32768 \/ d.h1 > 32767

\* x + y on int64_t, wrapped to 64 bits where it overflows.
Add64(x, y) ==
    LET d == Add64Digits(x, y)
    IN  [h |-> Sgn16(Lo16(d.h1)) * Base16 + d.h0, m |-> d.m, l |-> d.l]

\* (fixed_t)(x >> FIXED_SHIFT): the arithmetic shift leaves h * 2^16 + m,
\* and the conversion to int32_t keeps its low 32 bits.
NarrowShr16(x) == Sgn16(Lo16(x.h)) * Base16 + x.m

\* x <= y on int64_t.
Leq64(x, y) ==
    \/ x.h < y.h
    \/ x.h = y.h /\ x.m < y.m
    \/ x.h = y.h /\ x.m = y.m /\ x.l <= y.l

\* r * 65536 as an int64_t, for a 32-bit r.
Shl16(r) == [h |-> Hi16(r), m |-> Lo16(r), l |-> 0]

\* -x on int64_t (x above INT64_MIN).
Neg64(x) ==
    LET l == -x.l
        m == Hi16(l) - x.m
    IN  [h |-> Hi16(m) - x.h, m |-> Lo16(m), l |-> Lo16(l)]

\* (fixed_t)x for an int64_t x: the conversion keeps the low 32 bits.
Narrow32(x) == Sgn16(x.m) * Base16 + x.l

\* Binary long division of the n-bit digit c by d > 0, continuing from the
\* quotient and remainder s = [q, r] with r < d.  d is passed as nd = -d so
\* that d = 2^31 is representable; 2r + bit >= d is tested as
\* (nd + r) + r + bit >= 0, which stays within 32 bits.
RECURSIVE DivChunk(_, _, _, _)
DivChunk(s, c, n, nd) ==
    IF n = 0
    THEN s
    ELSE LET bit == (c \div 2^(n - 1)) % 2
             t == ((nd + s.r) + s.r) + bit
         IN  DivChunk(IF t >= 0
                      THEN [q |-> 2 * s.q + 1, r |-> t]
                      ELSE [q |-> 2 * s.q, r |-> 2 * s.r + bit],
                      c, n - 1, nd)

\* x / b on int64_t for a 32-bit b # 0 widened to int64_t: C division, which
\* truncates toward zero.  The magnitudes are divided digit by digit and the
\* sign is restored.
Div64(x, b) ==
    LET mag == IF x.h < 0 THEN Neg64(x) ELSE x
        nd == IF b > 0 THEN -b ELSE b
        s3 == DivChunk([q |-> 0, r |-> 0], Hi16(mag.h), FIXED_SHIFT, nd)
        s2 == DivChunk([q |-> 0, r |-> s3.r], Lo16(mag.h), FIXED_SHIFT, nd)
        s1 == DivChunk([q |-> 0, r |-> s2.r], mag.m, FIXED_SHIFT, nd)
        s0 == DivChunk([q |-> 0, r |-> s1.r], mag.l, FIXED_SHIFT, nd)
        q == [h |-> s3.q * Base16 + s2.q, m |-> s1.q, l |-> s0.q]
    IN  IF (x.h < 0) = (b < 0) THEN q ELSE Neg64(q)

(***************************************************************************)
(* Undefined behaviour.  Where the C code's behaviour is undefined (signed *)
(* overflow, a left shift of a negative value), the model takes both       *)
(* outcomes a build produces: the two's-complement value (an ordinary      *)
(* optimised build), or the program is aborted at the operation (a build   *)
(* with -ftrapv or a trapping sanitizer).                                  *)
(***************************************************************************)
UBOutcomes == {"wrap", "trap"}

(***************************************************************************)
(* src/core/fixed_point.c                                                  *)
(***************************************************************************)
\* A build that leaves out the rounding half unit.
fixed_mul_truncating(a, b) == NarrowShr16(Mul64(a, b))

\* A build that multiplies in 32 bits (the int64_t casts left out) and so
\* keeps only the low 32 bits of the product.
fixed_mul_narrow_product(a, b) ==
    LET p == Mul64(a, b)
        p32 == Sgn16(p.m) * Base16 + p.l
    IN  NarrowShr16(Add64(I64(p32), I64(FIXED_HALF)))

\* A build that rounds half away from zero by the sign of its first operand.
fixed_mul_sign_rounding(a, b) ==
    NarrowShr16(Add64(Mul64(a, b),
                      I64(IF a < 0 THEN FIXED_HALF - 1 ELSE FIXED_HALF)))

fixed_mul(a, b) ==
    LET result == Mul64(a, b)
        rounded == Add64(result, I64(FIXED_HALF))
    IN  NarrowShr16(rounded)

\* A build of fixed_div without the b == 0 check: the division by zero is
\* undefined and the processor faults on it.
fixed_div_unchecked(a, b, ubo) ==
    IF b = 0 \/ (a < 0 /\ ubo = "trap")
    THEN [ret |-> FIXED_ZERO, trap |-> TRUE]
    ELSE [ret |-> Narrow32(Div64(Shl16(a), b)), trap |-> FALSE]

\* fixed_div(a, b): yields the value returned and whether the build aborted.
\* (int64_t)a << FIXED_SHIFT is undefined for a negative a.
fixed_div(a, b, ubo) ==
    IF b = 0
    THEN [ret |-> FIXED_ZERO, trap |-> FALSE]
    ELSE IF a < 0 /\ ubo = "trap"
    THEN [ret |-> FIXED_ZERO, trap |-> TRUE]
    ELSE LET numerator == Shl16(a)
         IN  [ret |-> Narrow32(Div64(numerator, b)), trap |-> FALSE]

(***************************************************************************)
(* The scalar operations applied to sampled operands.                      *)
(***************************************************************************)
\* Raw 32-bit operands: the extremes, the units, fractions of either sign,
\* and 180.0, whose square does not fit a 32-bit intermediate.
Scalars ==
    {INT32_MIN, INT32_MAX, -1, 0, 1, 3, -3, FIXED_HALF, FIXED_ONE, -FIXED_ONE,
     98304, -98304, 163840, 180 * FIXED_ONE, 46341, -46341, 65535}

\* Whole numbers in Q16.16: 2.0, 181.0 (181 * 181 and 181 * 180 still fit 16
\* bits, 182 * 181 does not), -128.0 and 256.0 (whose product is -32768).
IntScalars == {2 * FIXED_ONE, 181 * FIXED_ONE, 182 * FIXED_ONE, -128 * FIXED_ONE,
               256 * FIXED_ONE}

Operands == Scalars \cup IntScalars

\* No thread is running and no table exists: the state of these variables in
\* the behaviours of the numeric core called from one thread.
NoThreads == <<>>
NoTable == [entries |-> <<>>, capacity |-> 0, count |-> 0]
SingleThreaded == thr = NoThreads
TableUnused ==
    /\ table = NoTable
    /\ table0 = NoTable
    /\ out_value = 0
    /\ inserted = <<>>
    /\ table2 = NoTable
    /\ trace = <<>>

NoBufs == [b \in {"buf_a", "buf_b", "buf_c"} |-> [i \in Cells |-> 0]]
NoViews == [v \in {"A", "B", "C"} |-> [data |-> NULL, rows |-> 0, cols |-> 0]]

InitFixed ==
    /\ pc = "call"
    /\ arg \in [a : Operands, b : Operands]
    /\ mem = NoBufs
    /\ view = NoViews
    /\ mem0 = mem
    /\ view0 = view
    /\ call = [op |-> "none"]
    /\ ret = 0
    /\ SingleThreaded
    /\ TableUnused

FixedMul ==
    /\ pc = "call"
    /\ pc' = "done"
    /\ call' = [op |-> "fixed_mul"]
    /\ ret' = fixed_mul(arg.a, arg.b)
    /\ UNCHANGED <<mem, view, mem0, view0, arg>>
    /\ UNCHANGED <<thr, tableVars>>

FixedDiv ==
    /\ pc = "call"
    /\ \E ubo \in UBOutcomes :
           LET r == fixed_div(arg.a, arg.b, ubo)
           IN  /\ pc' = IF r.trap THEN "trap" ELSE "done"
               /\ ret' = r.ret
    /\ call' = [op |-> "fixed_div"]
    /\ UNCHANGED <<mem, view, mem0, view0, arg>>
    /\ UNCHANGED <<thr, tableVars>>

NextFixed == FixedMul \/ FixedDiv

SpecFixed == InitFixed /\ [][NextFixed]_vars

(***************************************************************************)
(* Claims about fixed_mul.                                                 *)
(***************************************************************************)
Returned(op) == pc = "done" /\ call.op = op

\* C8: fixed_mul is commutative: the value returned for (a, b) is, bit for
\* bit, the value fixed_mul returns for (b, a).
C8_MulCommutative ==
    Returned("fixed_mul") => ret = fixed_mul(arg.b, arg.a)

\* C8 witness: a call with operands of different sign and magnitude whose
\* product is inexact has returned.
C8_Witness ==
    /\ Returned("fixed_mul")
    /\ arg.a = -98304
    /\ arg.b = 46341

\* C9: for every raw a, extremes included, fixed_mul(a, FIXED_ONE) = a and
\* fixed_mul(a, FIXED_ZERO) = FIXED_ZERO.
C9_MulIdentityAndZero ==
    Returned("fixed_mul") =>
        /\ arg.b = FIXED_ONE => ret = arg.a
        /\ arg.b = FIXED_ZERO => ret = FIXED_ZERO

\* C9 witness: the most negative raw value has been multiplied by FIXED_ONE.
C9_Witness ==
    /\ Returned("fixed_mul")
    /\ arg.a = INT32_MIN
    /\ arg.b = FIXED_ONE
    /\ ret = INT32_MIN

\* The quotient (a * b + 32768) >> 16 fits a fixed_t: the narrowing keeps it.
MulFits(a, b) ==
    LET q == Add64(Mul64(a, b), I64(FIXED_HALF))
    IN  q.h >= -32768 /\ q.h <= 32767

\* C10: fixed_mul(a, b) is floor((a*b + 32768) / 65536) narrowed modulo 2^32:
\* its low 16 bits are those of the quotient and its high 16 bits agree
\* with the quotient's modulo 2^16; and whenever the quotient fits in 32 bits
\* the result is within half a unit of the exact product:
\* ret*65536 - 32768 <= a*b <= ret*65536 + 32768.
C10_MulRoundsToNearest ==
    Returned("fixed_mul") =>
        LET p == Mul64(arg.a, arg.b)
            q == Add64(p, I64(FIXED_HALF))
        IN  /\ ~Add64Overflows(p, I64(FIXED_HALF))
            /\ Lo16(ret) = q.m
            /\ Lo16(Hi16(ret)) = Lo16(q.h)
            /\ MulFits(arg.a, arg.b) =>
                   /\ Leq64(Add64(Shl16(ret), I64(-FIXED_HALF)), p)
                   /\ Leq64(p, Add64(Shl16(ret), I64(FIXED_HALF)))

\* C10 witness: a negative inexact product that fits has been rounded.
C10_Witness ==
    /\ Returned("fixed_mul")
    /\ arg.a = -98304
    /\ arg.b = 46341
    /\ MulFits(arg.a, arg.b)
    /\ ret = -69511

\* The whole number a Q16.16 value stands for, when it stands for one.
IsWhole(a) == a % FIXED_ONE = 0
Whole(a) == a \div FIXED_ONE

\* C11: for whole numbers x and y whose product x * y lies in -32768..32767,
\* fixed_mul(x * 65536, y * 65536) is exactly (x * y) * 65536; 180 * 180 gives
\* 32400.
C11_MulWholeExact ==
    (/\ Returned("fixed_mul")
     /\ IsWhole(arg.a) /\ IsWhole(arg.b)
     /\ Whole(arg.a) * Whole(arg.b) >= -32768
     /\ Whole(arg.a) * Whole(arg.b) <= 32767) =>
        /\ ret = (Whole(arg.a) * Whole(arg.b)) * FIXED_ONE
        /\ (arg.a = 180 * FIXED_ONE /\ arg.b = 180 * FIXED_ONE) => ret = 32400 * FIXED_ONE

\* C11 witness: 180.0 * 180.0, whose raw product needs more than 32 bits, has
\* returned 32400.0.
C11_Witness ==
    /\ Returned("fixed_mul")
    /\ arg.a = 180 * FIXED_ONE
    /\ arg.b = 180 * FIXED_ONE
    /\ ret = 32400 * FIXED_ONE

(***************************************************************************)
(* Claims about fixed_div.                                                 *)
(***************************************************************************)
\* fixed_div was invoked and is over: it returned or the build aborted in it.
DivCalled == pc # "call" /\ call.op = "fixed_div"

\* C12: for every a, fixed_div(a, FIXED_ZERO) returns, and returns FIXED_ZERO.
C12_DivByZeroReturnsZero ==
    (DivCalled /\ arg.b = FIXED_ZERO) => (pc = "done" /\ ret = FIXED_ZERO)

\* C12 witness: the most negative value has been divided by zero and the
\* call returned zero.
C12_Witness ==
    /\ Returned("fixed_div")
    /\ arg.a = INT32_MIN
    /\ arg.b = FIXED_ZERO
    /\ ret = FIXED_ZERO

\* C13: for all a and all b # 0, fixed_div(a, b) returns the quotient
\* (a * 65536) / b truncated toward zero in 64 bits and narrowed to 32 bits,
\* with no half unit added; in particular fixed_div(a, FIXED_ONE) = a.
C13_DivTruncates ==
    (DivCalled /\ arg.b # 0) =>
        /\ pc = "done"
        /\ ret = Narrow32(Div64(Shl16(arg.a), arg.b))
        /\ arg.b = FIXED_ONE => ret = arg.a

\* What holds of the code in place of C13: the quotient is as C13 says for
\* every a >= 0, and for a negative a in a build that does not abort on the
\* shift of a negative value.
DivTruncatesUnlessShiftTraps ==
    (DivCalled /\ arg.b # 0 /\ pc = "done") =>
        /\ ret = Narrow32(Div64(Shl16(arg.a), arg.b))
        /\ arg.b = FIXED_ONE => ret = arg.a
        /\ (arg.a = -3 /\ arg.b = 2 * FIXED_ONE) => ret = -1
        /\ (arg.a = 1 /\ arg.b = -98304) => ret = 0

(***************************************************************************)
(* src/core/matrix.c                                                       *)
(***************************************************************************)
Bufs == {"buf_a", "buf_b", "buf_c"}
Views == {"A", "B", "C"}

\* The rounding and narrowing that end a dot product: sum += FIXED_HALF,
\* then (fixed_t)(sum >> FIXED_SHIFT).
Quantize(sum) == NarrowShr16(Add64(sum, I64(FIXED_HALF)))

\* The k loop of fx_matrix_mul from index k on: acc.sum is the running
\* int64_t sum, acc.ub records that some sum += prod overflowed.
RECURSIVE mul_sum(_, _, _, _, _, _, _)
mul_sum(m, A, B, i, j, k, acc) ==
    IF k < A.cols
    THEN LET val_a == m[A.data][i * A.cols + k]
             val_b == m[B.data][k * B.cols + j]
             prod == Mul64(val_a, val_b)
         IN  mul_sum(m, A, B, i, j, k + 1,
                     [sum |-> Add64(acc.sum, prod),
                      ub |-> acc.ub \/ Add64Overflows(acc.sum, prod)])
    ELSE acc

\* A build whose j loop adds the quantized sum to what the out cell holds
\* (C += A * B) instead of overwriting it.
RECURSIVE mul_cols_accumulating(_, _, _, _, _, _, _)
mul_cols_accumulating(s, A, B, C, i, j, ubo) ==
    IF s.trap \/ ~(j < B.cols)
    THEN s
    ELSE LET acc == mul_sum(s.mem, A, B, i, j, 0, [sum |-> I64(0), ub |-> FALSE])
             ub == acc.ub \/ Add64Overflows(acc.sum, I64(FIXED_HALF))
         IN  IF ub /\ ubo = "trap"
             THEN [s EXCEPT !.trap = TRUE]
             ELSE mul_cols_accumulating(
                      [s EXCEPT !.mem[C.data][i * C.cols + j] =
                                    Narrow32(Add64(I64(@), I64(Quantize(acc.sum))))],
                      A, B, C, i, j + 1, ubo)

\* The j loop of fx_matrix_mul from column j on, for row i.  s.mem is the
\* memory so far; s.trap says the build aborted.
RECURSIVE mul_cols(_, _, _, _, _, _, _)
mul_cols(s, A, B, C, i, j, ubo) ==
    IF s.trap \/ ~(j < B.cols)
    THEN s
    ELSE LET acc == mul_sum(s.mem, A, B, i, j, 0, [sum |-> I64(0), ub |-> FALSE])
             ub == acc.ub \/ Add64Overflows(acc.sum, I64(FIXED_HALF))
         IN  IF ub /\ ubo = "trap"
             THEN [s EXCEPT !.trap = TRUE]
             ELSE mul_cols([s EXCEPT !.mem[C.data][i * C.cols + j] = Quantize(acc.sum)],
                           A, B, C, i, j + 1, ubo)

\* The i loop of fx_matrix_mul from row i on.
RECURSIVE mul_rows(_, _, _, _, _, _)
mul_rows(s, A, B, C, i, ubo) ==
    IF s.trap \/ ~(i < A.rows)
    THEN s
    ELSE mul_rows(mul_cols(s, A, B, C, i, 0, ubo), A, B, C, i + 1, ubo)

\* A build without the A->cols != B->rows guard.
fx_matrix_mul_unguarded(m, vw, pA, pB, pC, ubo) ==
    IF pA = NULL \/ pB = NULL \/ pC = NULL
    THEN [mem |-> m, trap |-> FALSE]
    ELSE mul_rows([mem |-> m, trap |-> FALSE], vw[pA], vw[pB], vw[pC], 0, ubo)

\* fx_matrix_mul(A, B, C) on memory m and views vw; pA, pB, pC are the three
\* pointers.  Yields the memory it leaves and whether the build aborted.
fx_matrix_mul(m, vw, pA, pB, pC, ubo) ==
    IF pA = NULL \/ pB = NULL \/ pC = NULL
    THEN [mem |-> m, trap |-> FALSE]
    ELSE IF vw[pA].cols # vw[pB].rows
    THEN [mem |-> m, trap |-> FALSE]
    ELSE mul_rows([mem |-> m, trap |-> FALSE], vw[pA], vw[pB], vw[pC], 0, ubo)

(***************************************************************************)
(* fx_matrix_mul applied to sampled matrices.                              *)
(***************************************************************************)
Dims == 0 .. MaxDim

\* Buffer contents the caller filled in: 1.0, 2.0, 3.0, ...
RampBuf(first) == [i \in Cells |-> (first + i) * FIXED_ONE]
\* ... fractions of both signs ...
FracBuf == [i \in Cells |-> IF i % 2 = 0 THEN -98304 ELSE FIXED_HALF + 1 + i]
\* ... the most negative scalar in every cell ...
MinBuf == [i \in Cells |-> INT32_MIN]
\* ... and the sentinel 999.0 of test_dimension_safety.
Sentinel == 999 * FIXED_ONE
SentinelBuf == [i \in Cells |-> Sentinel]

\* The pointer triples a caller passes: all valid, or one of them null.
PtrArgs ==
    {<<"A", "B", "C">>, <<NULL, "B", "C">>, <<"A", NULL, "C">>, <<"A", "B", NULL>>}

Bound(buf, rows, cols) == [data |-> buf, rows |-> rows, cols |-> cols]

InitGemm ==
    /\ pc = "call"
    /\ \E ar \in Dims, ac \in Dims, br \in Dims, bc \in Dims, cr \in Dims, cc \in Dims :
           view = [v \in Views |->
                       CASE v = "A" -> Bound("buf_a", ar, ac)
                         [] v = "B" -> Bound("buf_b", br, bc)
                         [] v = "C" -> Bound("buf_c", cr, cc)]
    /\ \E da \in {RampBuf(1), FracBuf, MinBuf}, db \in {RampBuf(5), FracBuf, MinBuf} :
           mem = [b \in Bufs |->
                      CASE b = "buf_a" -> da
                        [] b = "buf_b" -> db
                        [] b = "buf_c" -> SentinelBuf]
    /\ mem0 = mem
    /\ view0 = view
    /\ arg = [a |-> 0, b |-> 0]
    /\ call = [op |-> "none"]
    /\ ret = 0
    /\ SingleThreaded
    /\ TableUnused

MatrixMul ==
    /\ pc = "call"
    /\ \E p \in PtrArgs, ubo \in UBOutcomes :
           LET r == fx_matrix_mul(mem, view, p[1], p[2], p[3], ubo)
           IN  /\ mem' = r.mem
               /\ pc' = IF r.trap THEN "trap" ELSE "done"
               /\ call' = [op |-> "fx_matrix_mul", A |-> p[1], B |-> p[2], C |-> p[3]]
    /\ UNCHANGED <<view, mem0, view0, arg, ret>>
    /\ UNCHANGED <<thr, tableVars>>

NextGemm == MatrixMul

Spec == InitGemm /\ [][NextGemm]_vars

(***************************************************************************)
(* Claims about fx_matrix_mul.                                             *)
(***************************************************************************)
\* fx_matrix_mul was invoked with three valid pointers and is over.
MulCalled ==
    /\ pc # "call"
    /\ call.op = "fx_matrix_mul"
    /\ call.A # NULL /\ call.B # NULL /\ call.C # NULL

\* The shapes fx_matrix_mul requires: A (N x M), B (M x P), C (N x P).
MulCompatible ==
    /\ view0["A"].cols = view0["B"].rows
    /\ view0["C"].rows = view0["A"].rows
    /\ view0["C"].cols = view0["B"].cols

\* The value C1 gives for cell (i, j): the sum of the products over k,
\* rounded and narrowed, taken from the inputs as they were at the call.
ClaimedCell(i, j) ==
    Quantize(mul_sum(mem0, view0["A"], view0["B"], i, j, 0,
                     [sum |-> I64(0), ub |-> FALSE]).sum)

\* Some cell's accumulator leaves the int64_t range on the inputs of the call.
MulOverflows ==
    \E i \in 0 .. (view0["A"].rows - 1), j \in 0 .. (view0["B"].cols - 1) :
        LET acc == mul_sum(mem0, view0["A"], view0["B"], i, j, 0,
                           [sum |-> I64(0), ub |-> FALSE])
        IN  acc.ub \/ Add64Overflows(acc.sum, I64(FIXED_HALF))

\* The integer-valued example of C1: A = [[1,2],[3,4]], B = [[5,6],[7,8]].
MulExample ==
    /\ view0["A"].rows = 2 /\ view0["A"].cols = 2 /\ view0["B"].cols = 2
    /\ \A i \in 0 .. 3 : /\ mem0["buf_a"][i] = (1 + i) * FIXED_ONE
                         /\ mem0["buf_b"][i] = (5 + i) * FIXED_ONE

\* C1: with compatible shapes, after fx_matrix_mul every cell out[i*P + j] is
\* the 32-bit narrowing of ((sum over k of A[i,k] * B[k,j]) + 32768) >> 16;
\* the example gives [[19,22],[43,50]].
C1_MulComputesProduct ==
    (MulCalled /\ MulCompatible) =>
        /\ pc = "done"
        /\ \A i \in 0 .. (view0["A"].rows - 1), j \in 0 .. (view0["B"].cols - 1) :
               mem["buf_c"][i * view0["B"].cols + j] = ClaimedCell(i, j)
        /\ MulExample =>
               /\ mem["buf_c"][0] = 19 * FIXED_ONE
               /\ mem["buf_c"][1] = 22 * FIXED_ONE
               /\ mem["buf_c"][2] = 43 * FIXED_ONE
               /\ mem["buf_c"][3] = 50 * FIXED_ONE

\* What holds of the code in place of C1: the cells are as C1 says whenever no
\* accumulator overflows.
MulComputesProductUnlessOverflow ==
    (MulCalled /\ MulCompatible /\ ~MulOverflows) => C1_MulComputesProduct

\* C2: whenever A.cols != B.rows, fx_matrix_mul returns and every cell of the
\* out buffer holds the value it held before the call.
C2_MulIncompatibleLeavesOut ==
    (MulCalled /\ view0["A"].cols # view0["B"].rows) =>
        /\ pc = "done"
        /\ \A i \in Cells : mem["buf_c"][i] = mem0["buf_c"][i]

\* C2 witness: an incompatible call, with A and B non-empty and of the same
\* shape, has returned and the out buffer still holds the sentinel.
C2_Witness ==
    /\ MulCalled
    /\ pc = "done"
    /\ view0["A"].rows = 1 /\ view0["A"].cols = 2
    /\ view0["B"].rows = 1 /\ view0["B"].cols = 2
    /\ view0["C"].rows = 1 /\ view0["C"].cols = 1
    /\ \A i \in Cells : mem["buf_c"][i] = Sentinel

\* C3: whenever A.cols = B.rows but the out view has the wrong shape,
\* fx_matrix_mul returns without writing any cell of the out buffer, inside or
\* outside the view.
C3_MulWrongOutShapeLeavesOut ==
    (/\ MulCalled
     /\ view0["A"].cols = view0["B"].rows
     /\ (view0["C"].rows # view0["A"].rows \/ view0["C"].cols # view0["B"].cols)) =>
        \A i \in Cells : mem["buf_c"][i] = mem0["buf_c"][i]

(***************************************************************************)
(* src/core/matrix.c: fx_matrix_init, fx_matrix_add, fx_matrix_apply.      *)
(*                                                                         *)
(* These act cell by cell, so a view may be far larger than the BufLen     *)
(* cells of its buffer that the model tracks: what happens to a tracked    *)
(* cell does not depend on the untracked ones.                             *)
(***************************************************************************)
\* fixed_add of include/fixed_point.h: same-scale integer addition.
fixed_add(a, b) == a + b

\* The scalar functions a caller hands to fx_matrix_apply.
Fns == {"relu", "neg"}
Fn(fn, x) == IF fn = "relu" THEN (IF x < 0 THEN 0 ELSE x) ELSE -x

\* uint16_t total_elements = rows * cols: the operands are promoted to int,
\* the product is undefined once it exceeds INT_MAX, and the conversion to
\* uint16_t keeps its low 16 bits.
IntMulOverflows(rows, cols) == UMul16(rows, cols).hi >= 32768
total_elements(rows, cols) == UMul16(rows, cols).lo

\* A build of fx_matrix_init whose memset length leaves out sizeof(fixed_t):
\* it clears rows * cols bytes, a quarter of the cells.
memset_cells_bytes(rows, cols) ==
    LET n == UMul16(rows, cols)
    IN  {i \in Cells : n.hi > 0 \/ 4 * i + 3 < n.lo}

\* The tracked cells that memset(data, 0, (size_t)rows * cols * sizeof(fixed_t))
\* clears: those below rows * cols, a product taken in size_t.
memset_cells(rows, cols) ==
    LET n == UMul16(rows, cols)
    IN  {i \in Cells : n.hi > 0 \/ i < n.lo}

\* fx_matrix_init(mat, buffer, rows, cols): yields the memory and the views
\* it leaves.
fx_matrix_init(m, vw, pM, buffer, rows, cols) ==
    IF pM = NULL \/ buffer = NULL
    THEN [mem |-> m, view |-> vw]
    ELSE [view |-> [vw EXCEPT ![pM] = [data |-> buffer, rows |-> rows, cols |-> cols]],
          mem |-> [m EXCEPT ![buffer] =
                      [i \in Cells |-> IF i \in memset_cells(rows, cols)
                                       THEN 0 ELSE m[buffer][i]]]]

\* A build of fx_matrix_add without the check of the output view's shape.
fx_matrix_add_unchecked_out(m, vw, pA, pB, pC, ubo) ==
    IF pA = NULL \/ pB = NULL \/ pC = NULL
    THEN [mem |-> m, trap |-> FALSE]
    ELSE IF vw[pA].rows # vw[pB].rows \/ vw[pA].cols # vw[pB].cols
    THEN [mem |-> m, trap |-> FALSE]
    ELSE IF IntMulOverflows(vw[pA].rows, vw[pA].cols) /\ ubo = "trap"
    THEN [mem |-> m, trap |-> TRUE]
    ELSE LET n == total_elements(vw[pA].rows, vw[pA].cols)
             A == m[vw[pA].data]
             B == m[vw[pB].data]
         IN  [mem |-> [m EXCEPT ![vw[pC].data] =
                          [i \in Cells |-> IF i < n THEN fixed_add(A[i], B[i]) ELSE @[i]]],
              trap |-> FALSE]

\* fx_matrix_add(A, B, C): the loop writes C->data[i] for i below
\* total_elements, each from A->data[i] and B->data[i] alone.
fx_matrix_add(m, vw, pA, pB, pC, ubo) ==
    IF pA = NULL \/ pB = NULL \/ pC = NULL
    THEN [mem |-> m, trap |-> FALSE]
    ELSE IF vw[pA].rows # vw[pB].rows \/ vw[pA].cols # vw[pB].cols
    THEN [mem |-> m, trap |-> FALSE]
    ELSE IF vw[pC].rows # vw[pA].rows \/ vw[pC].cols # vw[pA].cols
    THEN [mem |-> m, trap |-> FALSE]
    ELSE IF IntMulOverflows(vw[pA].rows, vw[pA].cols) /\ ubo = "trap"
    THEN [mem |-> m, trap |-> TRUE]
    ELSE LET n == total_elements(vw[pA].rows, vw[pA].cols)
             A == m[vw[pA].data]
             B == m[vw[pB].data]
         IN  [mem |-> [m EXCEPT ![vw[pC].data] =
                          [i \in Cells |-> IF i < n THEN fixed_add(A[i], B[i]) ELSE @[i]]],
              trap |-> FALSE]

\* fx_matrix_apply(mat, fn): the loop replaces mat->data[i] by fn of it for i
\* below total_elements.
fx_matrix_apply(m, vw, pM, fn, ubo) ==
    IF pM = NULL \/ fn = NULL
    THEN [mem |-> m, trap |-> FALSE]
    ELSE IF IntMulOverflows(vw[pM].rows, vw[pM].cols) /\ ubo = "trap"
    THEN [mem |-> m, trap |-> TRUE]
    ELSE LET n == total_elements(vw[pM].rows, vw[pM].cols)
         IN  [mem |-> [m EXCEPT ![vw[pM].data] =
                          [i \in Cells |-> IF i < n THEN Fn(fn, @[i]) ELSE @[i]]],
              trap |-> FALSE]

(***************************************************************************)
(* The cell-by-cell operations applied to sampled views.                   *)
(***************************************************************************)
\* Shapes <<rows, cols>>: empty, smaller than the tracked cells, with
\* rows * cols = 65535, = 65536 and = 65792, and the largest of all.
Shapes ==
    {<<0, 3>>, <<1, 2>>, <<2, 1>>, <<1, 3>>, <<257, 255>>, <<256, 256>>,
     <<257, 256>>, <<UINT16_MAX, UINT16_MAX>>}

InitElem ==
    /\ pc = "call"
    /\ \E sa \in Shapes, sb \in Shapes, sc \in Shapes :
           view = [v \in Views |->
                       CASE v = "A" -> Bound("buf_a", sa[1], sa[2])
                         [] v = "B" -> Bound("buf_b", sb[1], sb[2])
                         [] v = "C" -> Bound("buf_c", sc[1], sc[2])]
    /\ \E da \in {RampBuf(1), FracBuf}, db \in {RampBuf(10), FracBuf} :
           mem = [b \in Bufs |->
                      CASE b = "buf_a" -> da
                        [] b = "buf_b" -> db
                        [] b = "buf_c" -> SentinelBuf]
    /\ mem0 = mem
    /\ view0 = view
    /\ arg = [a |-> 0, b |-> 0]
    /\ call = [op |-> "none"]
    /\ ret = 0
    /\ SingleThreaded
    /\ TableUnused

MatrixInit ==
    /\ pc = "call"
    /\ \E pM \in {"A", "C", NULL}, buffer \in {"buf_a", "buf_c", NULL}, s \in Shapes :
           LET r == fx_matrix_init(mem, view, pM, buffer, s[1], s[2])
           IN  /\ mem' = r.mem
               /\ view' = r.view
               /\ call' = [op |-> "fx_matrix_init", mat |-> pM, buffer |-> buffer,
                           rows |-> s[1], cols |-> s[2]]
    /\ pc' = "done"
    /\ UNCHANGED <<mem0, view0, arg, ret>>
    /\ UNCHANGED <<thr, tableVars>>

MatrixAdd ==
    /\ pc = "call"
    /\ \E p \in PtrArgs, ubo \in UBOutcomes :
           LET r == fx_matrix_add(mem, view, p[1], p[2], p[3], ubo)
           IN  /\ mem' = r.mem
               /\ pc' = IF r.trap THEN "trap" ELSE "done"
               /\ call' = [op |-> "fx_matrix_add", A |-> p[1], B |-> p[2], C |-> p[3]]
    /\ UNCHANGED <<view, mem0, view0, arg, ret>>
    /\ UNCHANGED <<thr, tableVars>>

MatrixApply ==
    /\ pc = "call"
    /\ \E pM \in Views \cup {NULL}, fn \in Fns \cup {NULL}, ubo \in UBOutcomes :
           LET r == fx_matrix_apply(mem, view, pM, fn, ubo)
           IN  /\ mem' = r.mem
               /\ pc' = IF r.trap THEN "trap" ELSE "done"
               /\ call' = [op |-> "fx_matrix_apply", mat |-> pM, fn |-> fn]
    /\ UNCHANGED <<view, mem0, view0, arg, ret>>
    /\ UNCHANGED <<thr, tableVars>>

NextElem == MatrixInit \/ MatrixAdd \/ MatrixApply

SpecElem == InitElem /\ [][NextElem]_vars

(***************************************************************************)
(* Claims about fx_matrix_add, fx_matrix_apply and fx_matrix_init.         *)
(***************************************************************************)
\* The linear index i is below rows * cols (stated without the product).
InView(i, rows, cols) == rows > 0 /\ cols > 0 /\ (i \div cols) < rows

\* fx_matrix_add was invoked with three valid pointers and is over.
AddCalled ==
    /\ pc # "call"
    /\ call.op = "fx_matrix_add"
    /\ call.A # NULL /\ call.B # NULL /\ call.C # NULL

\* A, B and out have the same shape.
AddShapesEqual ==
    /\ view0["A"].rows = view0["B"].rows /\ view0["A"].cols = view0["B"].cols
    /\ view0["C"].rows = view0["A"].rows /\ view0["C"].cols = view0["A"].cols

\* C4: for views of identical shape, each dimension anywhere in 0..65535,
\* after fx_matrix_add every linear index i below rows * cols has
\* out[i] = A[i] + B[i].
C4_AddCoversEveryIndex ==
    (AddCalled /\ AddShapesEqual) =>
        /\ pc = "done"
        /\ \A i \in Cells :
               InView(i, view0["A"].rows, view0["A"].cols) =>
                   mem["buf_c"][i] = mem0["buf_a"][i] + mem0["buf_b"][i]

\* C5: whenever the shapes of A, B and out are not all equal, fx_matrix_add
\* returns with every cell of the out buffer unchanged.
C5_AddMismatchLeavesOut ==
    (AddCalled /\ ~AddShapesEqual) =>
        /\ pc = "done"
        /\ \A i \in Cells : mem["buf_c"][i] = mem0["buf_c"][i]

\* C5 witness: A and B agree in shape and are non-empty, only the out view
\* differs, and the call has returned.
C5_Witness ==
    /\ AddCalled
    /\ pc = "done"
    /\ view0["A"].rows = 1 /\ view0["A"].cols = 2
    /\ view0["B"].rows = 1 /\ view0["B"].cols = 2
    /\ view0["C"].rows = 2 /\ view0["C"].cols = 1
    /\ \A i \in Cells : mem["buf_c"][i] = Sentinel

\* fx_matrix_apply was invoked with a valid view and function and is over.
ApplyCalled ==
    /\ pc # "call"
    /\ call.op = "fx_matrix_apply"
    /\ call.mat # NULL /\ call.fn # NULL

\* C6: for every view, each dimension anywhere in 0..65535, after
\* fx_matrix_apply(mat, fn) every linear index i below rows * cols holds fn of
\* the value it held at the call.
C6_ApplyCoversEveryIndex ==
    ApplyCalled =>
        /\ pc = "done"
        /\ LET v == view0[call.mat]
           IN  \A i \in Cells :
                   InView(i, v.rows, v.cols) =>
                       mem[v.data][i] = Fn(call.fn, mem0[v.data][i])

\* fx_matrix_init was invoked with a valid view and buffer and is over.
InitCalled ==
    /\ pc # "call"
    /\ call.op = "fx_matrix_init"
    /\ call.mat # NULL /\ call.buffer # NULL

\* C7: fx_matrix_init binds the view to the buffer with the given rows and
\* cols, zeroes every buffer cell below rows * cols whatever it held, and
\* leaves every buffer cell from rows * cols on as it was.
C7_InitZeroesExactly ==
    InitCalled =>
        /\ pc = "done"
        /\ view[call.mat] = [data |-> call.buffer, rows |-> call.rows, cols |-> call.cols]
        /\ \A i \in Cells :
               mem[call.buffer][i] =
                   IF InView(i, call.rows, call.cols) THEN 0 ELSE mem0[call.buffer][i]

\* C7 witness: a view was bound to another view's buffer with a 1 x 2 shape;
\* two non-zero cells were cleared and the non-zero cell after them was kept.
C7_Witness ==
    /\ InitCalled
    /\ call.mat = "C" /\ call.buffer = "buf_a"
    /\ call.rows = 1 /\ call.cols = 2
    /\ mem0["buf_a"][0] # 0 /\ mem0["buf_a"][1] # 0 /\ mem0["buf_a"][2] # 0
    /\ mem["buf_a"][0] = 0 /\ mem["buf_a"][1] = 0
    /\ mem["buf_a"][2] = mem0["buf_a"][2]
    /\ view["C"].data = "buf_a"

(***************************************************************************)
(* src/core/matrix.c: fx_vector_dot.                                       *)
(***************************************************************************)
\* The loop of fx_vector_dot from index i on: acc.sum is the running int64_t
\* sum, acc.ub records that some sum += prod overflowed.
\* The loop of fx_vector_dot with every product rounded to Q16.16 before it
\* is added, as a sum of fixed_mul results would be.
RECURSIVE dot_sum_quantizing(_, _, _, _, _, _)
dot_sum_quantizing(m, a, b, len, i, acc) ==
    IF i < len
    THEN LET prod == Shl16(fixed_mul(m[a][i], m[b][i]))
         IN  dot_sum_quantizing(m, a, b, len, i + 1,
                     [sum |-> Add64(acc.sum, prod),
                      ub |-> acc.ub \/ Add64Overflows(acc.sum, prod)])
    ELSE acc

RECURSIVE dot_sum(_, _, _, _, _, _)
dot_sum(m, a, b, len, i, acc) ==
    IF i < len
    THEN LET prod == Mul64(m[a][i], m[b][i])
         IN  dot_sum(m, a, b, len, i + 1,
                     [sum |-> Add64(acc.sum, prod),
                      ub |-> acc.ub \/ Add64Overflows(acc.sum, prod)])
    ELSE acc

\* fx_vector_dot(a, b, len) on memory m: yields the value returned and whether
\* the build aborted on an overflowing addition.
fx_vector_dot(m, a, b, len, ubo) ==
    IF a = NULL \/ b = NULL
    THEN [ret |-> FIXED_ZERO, trap |-> FALSE]
    ELSE LET acc == dot_sum(m, a, b, len, 0, [sum |-> I64(0), ub |-> FALSE])
             ub == acc.ub \/ Add64Overflows(acc.sum, I64(FIXED_HALF))
         IN  IF ub /\ ubo = "trap"
             THEN [ret |-> FIXED_ZERO, trap |-> TRUE]
             ELSE [ret |-> Quantize(acc.sum), trap |-> FALSE]

(***************************************************************************)
(* fx_vector_dot applied to sampled vectors.                               *)
(***************************************************************************)
\* Vector lengths: from empty to every tracked cell.
Lens == 0 .. BufLen

\* The largest scalar in every cell.
MaxBuf == [i \in Cells |-> INT32_MAX]

InitDot ==
    /\ pc = "call"
    /\ view = [v \in Views |-> Bound(NULL, 0, 0)]
    /\ \E da \in {RampBuf(1), FracBuf, MinBuf, MaxBuf},
          db \in {RampBuf(4), FracBuf, MinBuf, MaxBuf} :
           mem = [b \in Bufs |->
                      CASE b = "buf_a" -> da
                        [] b = "buf_b" -> db
                        [] b = "buf_c" -> SentinelBuf]
    /\ mem0 = mem
    /\ view0 = view
    /\ arg = [a |-> 0, b |-> 0]
    /\ call = [op |-> "none"]
    /\ ret = 0
    /\ SingleThreaded
    /\ TableUnused

VectorDot ==
    /\ pc = "call"
    /\ \E a \in {"buf_a", NULL}, b \in {"buf_b", NULL}, len \in Lens, ubo \in UBOutcomes :
           LET r == fx_vector_dot(mem, a, b, len, ubo)
           IN  /\ ret' = r.ret
               /\ pc' = IF r.trap THEN "trap" ELSE "done"
               /\ call' = [op |-> "fx_vector_dot", a |-> a, b |-> b, len |-> len]
    /\ UNCHANGED <<mem, view, mem0, view0, arg>>
    /\ UNCHANGED <<thr, tableVars>>

NextDot == VectorDot

SpecDot == InitDot /\ [][NextDot]_vars

(***************************************************************************)
(* Claims about fx_vector_dot.                                             *)
(***************************************************************************)
\* fx_vector_dot was invoked and is over.
DotCalled == pc # "call" /\ call.op = "fx_vector_dot"

\* The accumulator of the call leaves the int64_t range.
DotOverflows ==
    /\ call.a # NULL /\ call.b # NULL
    /\ LET acc == dot_sum(mem0, call.a, call.b, call.len, 0,
                          [sum |-> I64(0), ub |-> FALSE])
       IN  acc.ub \/ Add64Overflows(acc.sum, I64(FIXED_HALF))

\* The dot product of the first n cells of two whole-valued buffers, as a
\* whole number.
RECURSIVE WholeDot(_, _, _)
WholeDot(x, y, n) ==
    IF n = 0 THEN 0 ELSE WholeDot(x, y, n - 1) + Whole(x[n - 1]) * Whole(y[n - 1])

\* C14: fx_vector_dot(a, b, len) returns the 32-bit narrowing of
\* ((sum over i < len of a[i] * b[i]) + 32768) >> 16, the sum taken in
\* ascending order in 64 bits; it returns FIXED_ZERO when len is 0 or a
\* pointer is null; whole-valued vectors give the exact whole dot product,
\* [1,2,3] . [4,5,6] = 32.
C14_DotComputesSum ==
    DotCalled =>
        /\ pc = "done"
        /\ (call.a = NULL \/ call.b = NULL \/ call.len = 0) => ret = FIXED_ZERO
        /\ (call.a # NULL /\ call.b # NULL) =>
               /\ ret = Quantize(dot_sum(mem0, call.a, call.b, call.len, 0,
                                         [sum |-> I64(0), ub |-> FALSE]).sum)
               /\ (mem0[call.a] = RampBuf(1) /\ mem0[call.b] = RampBuf(4)) =>
                      ret = WholeDot(mem0[call.a], mem0[call.b], call.len) * FIXED_ONE
               /\ (mem0[call.a] = RampBuf(1) /\ mem0[call.b] = RampBuf(4) /\ call.len = 3) =>
                      ret = 32 * FIXED_ONE

\* What holds of the code in place of C14: the value is as C14 says whenever
\* the accumulator does not overflow.
DotComputesSumUnlessOverflow ==
    (DotCalled /\ ~DotOverflows) => C14_DotComputesSum

(***************************************************************************)
(* Claims about the 64-bit accumulator.                                    *)
(***************************************************************************)
\* C17: in fx_matrix_mul, for any 32-bit scalars and any inner dimension, the
\* running 64-bit accumulator never leaves the int64_t range, neither at a
\* step of the k loop nor when 32768 is added.
C17_AccumulatorStaysInRange ==
    (MulCalled /\ view0["A"].cols = view0["B"].rows) => ~MulOverflows

\* What holds of the code in place of C17: a single product never leaves the
\* range, so with an inner dimension of 1 the accumulator stays in range.
AccumulatorStaysInRangeForOneTerm ==
    (MulCalled /\ view0["A"].cols = view0["B"].rows /\ view0["A"].cols <= 1) =>
        ~MulOverflows

(***************************************************************************)
(* Two runs of fx_matrix_mul on equal-valued inputs.                       *)
(*                                                                         *)
(* The first run multiplies A and B into C; the second multiplies D and E, *)
(* which hold the same values as A and B in the same or in other buffers,  *)
(* into F, whose buffer held something else.  Both runs belong to the same *)
(* build, so undefined behaviour has the same outcome in both; the second  *)
(* run is a separate execution and takes place even if the first aborted.  *)
(***************************************************************************)
PairBufs == Bufs \cup {"buf_d", "buf_e", "buf_f"}
PairViews == Views \cup {"D", "E", "F"}

ZeroBuf == [i \in Cells |-> 0]

InitPair ==
    /\ pc = "call"
    /\ \E ar \in Dims, ac \in Dims, br \in Dims, bc \in Dims,
          fits \in BOOLEAN, same \in BOOLEAN :
           LET cr == IF fits THEN ar ELSE MaxDim
               cc == IF fits THEN bc ELSE MaxDim
           IN  view = [v \in PairViews |->
                           CASE v = "A" -> Bound("buf_a", ar, ac)
                             [] v = "B" -> Bound("buf_b", br, bc)
                             [] v = "C" -> Bound("buf_c", cr, cc)
                             [] v = "D" -> Bound(IF same THEN "buf_a" ELSE "buf_d", ar, ac)
                             [] v = "E" -> Bound(IF same THEN "buf_b" ELSE "buf_e", br, bc)
                             [] v = "F" -> Bound("buf_f", cr, cc)]
    /\ \E da \in {RampBuf(1), FracBuf, MinBuf}, db \in {RampBuf(5), FracBuf, MinBuf} :
           mem = [b \in PairBufs |->
                      CASE b \in {"buf_a", "buf_d"} -> da
                        [] b \in {"buf_b", "buf_e"} -> db
                        [] b = "buf_c" -> SentinelBuf
                        [] b = "buf_f" -> ZeroBuf]
    /\ mem0 = mem
    /\ view0 = view
    /\ arg = [a |-> 0, b |-> 0]
    /\ call = [op |-> "none"]
    /\ ret = 0
    /\ SingleThreaded
    /\ TableUnused

MulFirst ==
    /\ pc = "call"
    /\ \E ubo \in UBOutcomes :
           LET r == fx_matrix_mul(mem, view, "A", "B", "C", ubo)
           IN  /\ mem' = r.mem
               /\ call' = [op |-> "fx_matrix_mul", run |-> 1, ubo |-> ubo,
                           trap1 |-> r.trap, trap2 |-> FALSE]
    /\ pc' = "second"
    /\ UNCHANGED <<view, mem0, view0, arg, ret>>
    /\ UNCHANGED <<thr, tableVars>>

MulSecond ==
    /\ pc = "second"
    /\ LET r == fx_matrix_mul(mem, view, "D", "E", "F", call.ubo)
       IN  /\ mem' = r.mem
           /\ call' = [call EXCEPT !.run = 2, !.trap2 = r.trap]
           /\ pc' = IF call.trap1 \/ r.trap THEN "trap" ELSE "done"
    /\ UNCHANGED <<view, mem0, view0, arg, ret>>
    /\ UNCHANGED <<thr, tableVars>>

NextPair == MulFirst \/ MulSecond

SpecPair == InitPair /\ [][NextPair]_vars

(***************************************************************************)
(* Claims about repeated runs of fx_matrix_mul.                            *)
(***************************************************************************)
\* Both runs are over.
BothRan == call.op = "fx_matrix_mul" /\ call.run = 2

\* The cells of the out views (both have the same shape).
OutCells == {i \in Cells : InView(i, view0["C"].rows, view0["C"].cols)}

InitCore ==
    /\ pc = "call"
    /\ \E ar \in Dims, ac \in Dims, bc \in Dims, bsame \in BOOLEAN, csame \in BOOLEAN :
           view = [v \in Views |->
                       CASE v = "A" -> Bound("buf_a", ar, ac)
                         [] v = "B" -> IF bsame THEN Bound("buf_b", ar, ac)
                                                ELSE Bound("buf_b", ac, bc)
                         [] v = "C" -> IF csame THEN Bound("buf_c", ar, ac)
                                                ELSE Bound("buf_c", ar, bc)]
    /\ \E da \in {RampBuf(1), FracBuf}, db \in {RampBuf(5), FracBuf} :
           mem = [b \in Bufs |->
                      CASE b = "buf_a" -> da
                        [] b = "buf_b" -> db
                        [] b = "buf_c" -> SentinelBuf]
    /\ mem0 = mem
    /\ view0 = view
    /\ arg = [a |-> 0, b |-> 0]
    /\ call = [op |-> "none"]
    /\ ret = 0
    /\ SingleThreaded
    /\ TableUnused

NextCore == MatrixMul \/ MatrixAdd \/ MatrixApply \/ VectorDot

SpecCore == InitCore /\ [][NextCore]_vars

(***************************************************************************)
(* Claims about what the core operations write.                            *)
(***************************************************************************)
\* Buffer b holds what it held at the call.
Kept(b) == mem[b] = mem0[b]

\* The cells of view v's buffer that lie outside the view hold what they held
\* at the call.
KeptOutside(v) ==
    \A i \in Cells :
        ~InView(i, view0[v].rows, view0[v].cols) =>
            mem[view0[v].data][i] = mem0[view0[v].data][i]

\* C18: the core operations write only to their designated output.
\* fx_matrix_mul and fx_matrix_add change no cell of the A or B buffers, no
\* field of the three views, and no cell outside the out view; fx_vector_dot
\* changes nothing; fx_matrix_apply changes only cells of mat.
C18_WritesOnlyOutput ==
    pc # "call" =>
        /\ view = view0
        /\ call.op \in {"fx_matrix_mul", "fx_matrix_add"} =>
               /\ Kept("buf_a")
               /\ Kept("buf_b")
               /\ KeptOutside("C")
        /\ call.op = "fx_vector_dot" => mem = mem0
        /\ call.op = "fx_matrix_apply" =>
               /\ \A v \in Views : v # call.mat => Kept(view0[v].data)
               /\ call.mat # NULL => KeptOutside(call.mat)

\* What holds of the code in place of C18: the A and B buffers and the views
\* are never changed, fx_vector_dot changes nothing, and fx_matrix_add and
\* fx_matrix_apply stay inside their view; fx_matrix_mul stays inside the out
\* view when the view has the shape A.rows x B.cols.
WritesOnlyOutputWhenOutFits ==
    pc # "call" =>
        /\ view = view0
        /\ call.op \in {"fx_matrix_mul", "fx_matrix_add"} =>
               /\ Kept("buf_a")
               /\ Kept("buf_b")
               /\ (call.op = "fx_matrix_add" \/ MulCompatible) => KeptOutside("C")
        /\ call.op = "fx_vector_dot" => mem = mem0
        /\ call.op = "fx_matrix_apply" =>
               /\ \A v \in Views : v # call.mat => Kept(view0[v].data)
               /\ call.mat # NULL => KeptOutside(call.mat)

(***************************************************************************)
(* Two concurrent invocations of the core operations, each on its own      *)
(* buffers, taken one memory access at a time.                             *)
(*                                                                         *)
(* Thread 1 works on the views A, B, C and thread 2 on D, E, F.  A step of *)
(* a thread is one read or one write of a cell, together with the local    *)
(* computation that follows it up to the next access.  thr[t] holds the    *)
(* locals of the invocation: the loop counters i, j, k, the values read,   *)
(* the accumulator sum, and the set of buffers it has accessed.            *)
(***************************************************************************)
Threads == {1, 2}
Ops == {"fx_matrix_mul", "fx_matrix_add", "fx_matrix_apply", "fx_vector_dot"}

ViewA(t) == IF t = 1 THEN "A" ELSE "D"
ViewB(t) == IF t = 1 THEN "B" ELSE "E"
ViewC(t) == IF t = 1 THEN "C" ELSE "F"

\* A build whose accumulator is a static variable, shared by every invocation.
AccSlotStatic(t) == 1

\* `int64_t sum = 0;` is an automatic variable: the accumulator of thread t's
\* invocation is its own.
AccSlot(t) == t

\* Where fx_matrix_mul is when the iteration for cell (i, j) begins: at the
\* first read of the k loop, at the write if the k loop is empty, or past the
\* loops.
RECURSIVE MulPos(_, _, _, _)
MulPos(A, B, i, j) ==
    IF ~(i < A.rows)
    THEN [at |-> "done", i |-> i, j |-> j]
    ELSE IF ~(j < B.cols)
    THEN MulPos(A, B, i + 1, 0)
    ELSE [at |-> IF 0 < A.cols THEN "read_a" ELSE "write", i |-> i, j |-> j]

\* Where an invocation of op is after its argument checks.
StartAt(op, A, B, C) ==
    CASE op = "fx_matrix_mul" ->
             IF A.cols # B.rows THEN "done" ELSE MulPos(A, B, 0, 0).at
      [] op = "fx_matrix_add" ->
             IF A.rows # B.rows \/ A.cols # B.cols THEN "done"
             ELSE IF C.rows # A.rows \/ C.cols # A.cols THEN "done"
             ELSE IF 0 < total_elements(A.rows, A.cols) THEN "read_a" ELSE "done"
      [] op = "fx_matrix_apply" ->
             IF 0 < total_elements(A.rows, A.cols) THEN "read_a" ELSE "done"
      [] op = "fx_vector_dot" ->
             IF 0 < A.rows * A.cols THEN "read_a" ELSE "done"

\* The shapes <<rows, cols>> of a thread's first view.
ConcShapes == {<<1, 2>>, <<2, 2>>}

\* The views of an invocation of op whose first view is r x c: the shapes the
\* operation requires.
ConcView(op, v, buf, r, c) ==
    IF op = "fx_matrix_mul"
    THEN CASE v = "A" -> Bound(buf, r, c)
           [] v = "B" -> Bound(buf, c, r)
           [] v = "C" -> Bound(buf, r, r)
    ELSE Bound(buf, r, c)

InitConc ==
    /\ pc = "run"
    /\ \E op1 \in Ops, op2 \in Ops, s1 \in ConcShapes, s2 \in ConcShapes,
          d1 \in {FracBuf, MinBuf}, ubo \in UBOutcomes :
           /\ d1 = MinBuf => op1 \in {"fx_matrix_mul", "fx_vector_dot"}
           /\ view = [v \in PairViews |->
                          CASE v = "A" -> ConcView(op1, "A", "buf_a", s1[1], s1[2])
                            [] v = "B" -> ConcView(op1, "B", "buf_b", s1[1], s1[2])
                            [] v = "C" -> ConcView(op1, "C", "buf_c", s1[1], s1[2])
                            [] v = "D" -> ConcView(op2, "A", "buf_d", s2[1], s2[2])
                            [] v = "E" -> ConcView(op2, "B", "buf_e", s2[1], s2[2])
                            [] v = "F" -> ConcView(op2, "C", "buf_f", s2[1], s2[2])]
           /\ mem = [b \in PairBufs |->
                         CASE b \in {"buf_a", "buf_b"} -> d1
                           [] b = "buf_d" -> RampBuf(1)
                           [] b = "buf_e" -> RampBuf(5)
                           [] b \in {"buf_c", "buf_f"} -> SentinelBuf]
           /\ call = [op |-> "concurrent", ubo |-> ubo]
           /\ thr = [t \in Threads |->
                        LET op == IF t = 1 THEN op1 ELSE op2
                        IN  [op |-> op,
                             at |-> StartAt(op, view[ViewA(t)], view[ViewB(t)], view[ViewC(t)]),
                             i |-> 0, j |-> 0, k |-> 0, val_a |-> 0, val_b |-> 0,
                             sum |-> I64(0), ret |-> FIXED_ZERO, touched |-> {}]]
    /\ mem0 = mem
    /\ view0 = view
    /\ arg = [a |-> 0, b |-> 0]
    /\ ret = 0
    /\ TableUnused

\* Thread t is inside an invocation of op and the process is alive.
Running(t, op) == pc = "run" /\ thr[t].op = op /\ thr[t].at # "done"

\* One access of fx_matrix_mul by thread t.
MulStep(t) ==
    /\ Running(t, "fx_matrix_mul")
    /\ LET me == thr[t]
           A == view[ViewA(t)]
           B == view[ViewB(t)]
           C == view[ViewC(t)]
           sum == thr[AccSlot(t)].sum
       IN  CASE me.at = "read_a" ->
                    /\ thr' = [thr EXCEPT ![t].val_a = mem[A.data][me.i * A.cols + me.k],
                                          ![t].at = "read_b",
                                          ![t].touched = @ \cup {A.data}]
                    /\ UNCHANGED <<pc, mem>>
             [] me.at = "read_b" ->
                    LET val_b == mem[B.data][me.k * B.cols + me.j]
                        prod == Mul64(me.val_a, val_b)
                    IN  IF Add64Overflows(sum, prod) /\ call.ubo = "trap"
                        THEN /\ pc' = "trap"
                             /\ thr' = [thr EXCEPT ![t].touched = @ \cup {B.data}]
                             /\ UNCHANGED mem
                        ELSE /\ thr' = [thr EXCEPT ![t].val_b = val_b,
                                                   ![t].k = me.k + 1,
                                                   ![t].at = IF me.k + 1 < A.cols
                                                             THEN "read_a" ELSE "write",
                                                   ![t].touched = @ \cup {B.data},
                                                   ![AccSlot(t)].sum = Add64(sum, prod)]
                             /\ UNCHANGED <<pc, mem>>
             [] me.at = "write" ->
                    IF Add64Overflows(sum, I64(FIXED_HALF)) /\ call.ubo = "trap"
                    THEN /\ pc' = "trap"
                         /\ UNCHANGED <<thr, mem>>
                    ELSE LET next == MulPos(A, B, me.i, me.j + 1)
                         IN  /\ mem' = [mem EXCEPT ![C.data][me.i * C.cols + me.j] =
                                                       Quantize(sum)]
                             /\ thr' = [thr EXCEPT ![t].at = next.at,
                                                   ![t].i = next.i,
                                                   ![t].j = next.j,
                                                   ![t].k = 0,
                                                   ![t].touched = @ \cup {C.data},
                                                   ![AccSlot(t)].sum = I64(0)]
                             /\ UNCHANGED pc
    /\ UNCHANGED <<view, mem0, view0, arg, call, ret, tableVars>>

\* One access of fx_matrix_add by thread t.
AddStep(t) ==
    /\ Running(t, "fx_matrix_add")
    /\ LET me == thr[t]
           A == view[ViewA(t)]
           B == view[ViewB(t)]
           C == view[ViewC(t)]
       IN  CASE me.at = "read_a" ->
                    /\ thr' = [thr EXCEPT ![t].val_a = mem[A.data][me.i],
                                          ![t].at = "read_b",
                                          ![t].touched = @ \cup {A.data}]
                    /\ UNCHANGED mem
             [] me.at = "read_b" ->
                    /\ thr' = [thr EXCEPT ![t].val_b = mem[B.data][me.i],
                                          ![t].at = "write",
                                          ![t].touched = @ \cup {B.data}]
                    /\ UNCHANGED mem
             [] me.at = "write" ->
                    /\ mem' = [mem EXCEPT ![C.data][me.i] = fixed_add(me.val_a, me.val_b)]
                    /\ thr' = [thr EXCEPT ![t].i = me.i + 1,
                                          ![t].at = IF me.i + 1 < total_elements(A.rows, A.cols)
                                                    THEN "read_a" ELSE "done",
                                          ![t].touched = @ \cup {C.data}]
    /\ UNCHANGED <<pc, view, mem0, view0, arg, call, ret, tableVars>>

\* The scalar function the threads hand to fx_matrix_apply.
ConcFn == "neg"

\* One access of fx_matrix_apply by thread t.
ApplyStep(t) ==
    /\ Running(t, "fx_matrix_apply")
    /\ LET me == thr[t]
           mat == view[ViewA(t)]
       IN  CASE me.at = "read_a" ->
                    /\ thr' = [thr EXCEPT ![t].val_a = mem[mat.data][me.i],
                                          ![t].at = "write",
                                          ![t].touched = @ \cup {mat.data}]
                    /\ UNCHANGED mem
             [] me.at = "write" ->
                    /\ mem' = [mem EXCEPT ![mat.data][me.i] = Fn(ConcFn, me.val_a)]
                    /\ thr' = [thr EXCEPT ![t].i = me.i + 1,
                                          ![t].at = IF me.i + 1 < total_elements(mat.rows, mat.cols)
                                                    THEN "read_a" ELSE "done"]
    /\ UNCHANGED <<pc, view, mem0, view0, arg, call, ret, tableVars>>

\* The len argument of thread t's fx_vector_dot: every cell of its first view.
DotLen(t) == view[ViewA(t)].rows * view[ViewA(t)].cols

\* One access of fx_vector_dot by thread t; after the last one the sum is
\* rounded and returned.
DotStep(t) ==
    /\ Running(t, "fx_vector_dot")
    /\ LET me == thr[t]
           a == view[ViewA(t)].data
           b == view[ViewB(t)].data
           sum == thr[AccSlot(t)].sum
       IN  CASE me.at = "read_a" ->
                    /\ thr' = [thr EXCEPT ![t].val_a = mem[a][me.i],
                                          ![t].at = "read_b",
                                          ![t].touched = @ \cup {a}]
                    /\ UNCHANGED pc
             [] me.at = "read_b" ->
                    LET prod == Mul64(me.val_a, mem[b][me.i])
                        total == Add64(sum, prod)
                        last == ~(me.i + 1 < DotLen(t))
                        ub == \/ Add64Overflows(sum, prod)
                              \/ last /\ Add64Overflows(total, I64(FIXED_HALF))
                    IN  IF ub /\ call.ubo = "trap"
                        THEN /\ pc' = "trap"
                             /\ thr' = [thr EXCEPT ![t].touched = @ \cup {b}]
                        ELSE /\ thr' = [thr EXCEPT ![t].val_b = mem[b][me.i],
                                                   ![t].i = me.i + 1,
                                                   ![t].at = IF last THEN "done" ELSE "read_a",
                                                   ![t].ret = IF last THEN Quantize(total) ELSE @,
                                                   ![t].touched = @ \cup {b},
                                                   ![AccSlot(t)].sum = total]
                             /\ UNCHANGED pc
    /\ UNCHANGED <<mem, view, mem0, view0, arg, call, ret, tableVars>>

NextConc == \E t \in Threads : MulStep(t) \/ AddStep(t) \/ ApplyStep(t) \/ DotStep(t)

SpecConc == InitConc /\ [][NextConc]_vars

(***************************************************************************)
(* Claims about concurrent invocations.                                    *)
(***************************************************************************)
\* The buffers handed to thread t's invocation.
Own(t) == {view0[ViewA(t)].data, view0[ViewB(t)].data, view0[ViewC(t)].data}

\* Thread t's invocation left the output that the same call leaves when it
\* runs alone on the memory as it was at the start.
SameAsAlone(t) ==
    LET a == ViewA(t)
        b == ViewB(t)
        c == ViewC(t)
    IN  CASE thr[t].op = "fx_matrix_mul" ->
                 mem[view0[c].data] =
                     fx_matrix_mul(mem0, view0, a, b, c, call.ubo).mem[view0[c].data]
          [] thr[t].op = "fx_matrix_add" ->
                 mem[view0[c].data] =
                     fx_matrix_add(mem0, view0, a, b, c, call.ubo).mem[view0[c].data]
          [] thr[t].op = "fx_matrix_apply" ->
                 mem[view0[a].data] =
                     fx_matrix_apply(mem0, view0, a, ConcFn, call.ubo).mem[view0[a].data]
          [] thr[t].op = "fx_vector_dot" ->
                 thr[t].ret =
                     fx_vector_dot(mem0, view0[a].data, view0[b].data, DotLen(t),
                                   call.ubo).ret

\* C16: when two invocations of the core operations run concurrently on
\* disjoint buffers, under every interleaving of their reads and writes each
\* finished invocation has left the output it leaves when run alone, and no
\* invocation has read or written a cell of a buffer of the other.
C16_ConcurrentRunsIndependent ==
    \A t \in Threads :
        /\ thr[t].at = "done" => SameAsAlone(t)
        /\ thr[t].touched \subseteq Own(t)
        /\ \A u \in Threads \ {t} : thr[t].touched \cap Own(u) = {}

\* C16 witness: a matrix product and a dot product, both with two terms per
\* sum, ran to the end side by side; the product wrote its out cell and the
\* dot product returned 1*5 + 2*6 = 17.
C16_Witness ==
    /\ thr[1].op = "fx_matrix_mul" /\ thr[1].at = "done"
    /\ thr[2].op = "fx_vector_dot" /\ thr[2].at = "done"
    /\ view0["A"].cols = 2 /\ view0["D"].rows = 1 /\ view0["D"].cols = 2
    /\ mem["buf_c"][0] # mem0["buf_c"][0]
    /\ thr[2].ret = 17 * FIXED_ONE
    /\ thr[1].touched = {"buf_a", "buf_b", "buf_c"}
    /\ thr[2].touched = {"buf_d", "buf_e"}

(***************************************************************************)
(* src/containers/deterministic_hash.c                                     *)
(*                                                                         *)
(* A C string is the sequence of its character codes, without the          *)
(* terminating NUL.  A uint32_t is a record [hi, lo] of two 16-bit digits. *)
(***************************************************************************)
D_TABLE_OK == 0
D_TABLE_FULL == 1
D_TABLE_KEY_EXISTS == 2
D_TABLE_NOT_FOUND == 3
D_TABLE_INVALID_PARAM == 4

\* sizeof(d_entry_t.key): char key[32].
KEY_SIZE == 32
\* sizeof(d_entry_t): 32 bytes of key, a 4-byte value, a 1-byte flag and 3
\* bytes of padding.
SIZEOF_ENTRY == 40

\* Largest number of entries of a pool handed to d_table_init.
MaxCap == 2

Min(a, b) == IF a < b THEN a ELSE b

\* Bit i of the non-negative x.
Bit(x, i) == (x \div 2^i) % 2
\* Bitwise exclusive or of two 16-bit values, from bit i up.
RECURSIVE XorFrom(_, _, _)
XorFrom(a, b, i) ==
    IF i = FIXED_SHIFT THEN 0
    ELSE ((Bit(a, i) + Bit(b, i)) % 2) * 2^i + XorFrom(a, b, i + 1)

U32(x) == [hi |-> 0, lo |-> x]
\* x + y modulo 2^32.
U32Add(x, y) ==
    LET lo == x.lo + y.lo
    IN  [hi |-> Lo16(x.hi + y.hi + Hi16(lo)), lo |-> Lo16(lo)]
\* x << n modulo 2^32, for 0 < n < 16.
U32Shl(x, n) ==
    LET lo == x.lo * 2^n
    IN  [hi |-> Lo16(((x.hi * 2^n) % Base16) + Hi16(lo)), lo |-> Lo16(lo)]
\* x >> n, for 0 < n < 16.
U32Shr(x, n) ==
    [hi |-> x.hi \div 2^n,
     lo |-> (x.lo \div 2^n) + ((x.hi % 2^n) * 2^(FIXED_SHIFT - n))]
U32Xor(x, y) == [hi |-> XorFrom(x.hi, y.hi, 0), lo |-> XorFrom(x.lo, y.lo, 0)]
\* x % n for a small positive n.
U32Mod(x, n) == (((x.hi % n) * (Base16 % n)) + x.lo) % n

\* One turn of the while loop of jenkins_hash, for the character c.
jenkins_mix(hash, c) ==
    LET h1 == U32Add(hash, U32(c))
        h2 == U32Add(h1, U32Shl(h1, 10))
    IN  U32Xor(h2, U32Shr(h2, 6))

\* The while loop of jenkins_hash from character i on.  The hash after each
\* turn is a value of [hi, lo] before the next turn starts.
RECURSIVE jenkins_loop(_, _, _)
jenkins_loop(key, i, hash) ==
    IF i > Len(key)
    THEN hash
    ELSE LET next == jenkins_mix(hash, key[i])
         IN  IF DOMAIN next = {"hi", "lo"}
             THEN jenkins_loop(key, i + 1, next)
             ELSE hash

jenkins_hash(key) ==
    LET h0 == jenkins_loop(key, 1, U32(0))
        h1 == U32Add(h0, U32Shl(h0, 3))
        h2 == U32Xor(h1, U32Shr(h1, 11))
    IN  U32Add(h2, U32Shl(h2, 15))

\* The string that strncpy(dst, key, 31); dst[31] = '\0' leaves in dst.
StoredKey(key) == SubSeq(key, 1, Min(Len(key), KEY_SIZE - 1))

\* The characters strncmp(s, ., n) looks at: the first n, or up to and
\* including the terminating NUL if that comes first.
Compared(s, n) == SubSeq(s \o <<0>>, 1, Min(n, Len(s) + 1))
\* strncmp(s, k, n) == 0.
StrnEqual(s, k, n) == Compared(s, n) = Compared(k, n)

\* The keys the callers use: "key1", "key2", a key of 31 characters, and two
\* keys of 32 characters that begin with those 31.
Key1 == <<107, 101, 121, 49>>
Key2 == <<107, 101, 121, 50>>
Key31 == [i \in 1 .. (KEY_SIZE - 1) |-> 97]
Key32x == Key31 \o <<120>>
Key32y == Key31 \o <<121>>
Keys == {Key1, Key2, Key31, Key32x, Key32y}
\* The null pointer passed as a key: no character has this code.
NULL_KEY == <<-1>>

\* The start of each key's probe sequence in a table of each capacity.
HomeSlot == [k \in Keys |-> [c \in 1 .. MaxCap |-> U32Mod(jenkins_hash(k), c)]]

\* A d_entry_t of a zeroed pool.
ZeroEntry == [key |-> <<>>, value |-> 0, occupied |-> FALSE]

\* d_table_init without the memset: the slots keep what the pool held.
d_table_init_no_memset(tb, t, buffer, buffer_size) ==
    IF t = NULL \/ buffer = NULL
    THEN [table |-> tb, ret |-> D_TABLE_INVALID_PARAM]
    ELSE LET capacity == buffer_size \div SIZEOF_ENTRY
         IN  IF capacity = 0
             THEN [table |-> [tb EXCEPT !.capacity = capacity],
                   ret |-> D_TABLE_INVALID_PARAM]
             ELSE [table |-> [entries |-> [i \in 0 .. (capacity - 1) |->
                                              IF i \in DOMAIN tb.entries
                                              THEN tb.entries[i]
                                              ELSE ZeroEntry],
                              capacity |-> capacity,
                              count |-> 0],
                   ret |-> D_TABLE_OK]

\* d_table_init.  The hash_fn field, which is always jenkins_hash, is left
\* out of the table.
d_table_init(tb, t, buffer, buffer_size) ==
    IF t = NULL \/ buffer = NULL
    THEN [table |-> tb, ret |-> D_TABLE_INVALID_PARAM]
    ELSE LET capacity == buffer_size \div SIZEOF_ENTRY
         IN  IF capacity = 0
             THEN [table |-> [tb EXCEPT !.capacity = capacity],
                   ret |-> D_TABLE_INVALID_PARAM]
             ELSE [table |-> [entries |-> [i \in 0 .. (capacity - 1) |-> ZeroEntry],
                              capacity |-> capacity,
                              count |-> 0],
                   ret |-> D_TABLE_OK]

\* The probe loop of d_table_insert from index on: the free slot it stops
\* at, or -1 when it returns D_TABLE_KEY_EXISTS.
RECURSIVE insert_probe(_, _, _)
insert_probe(tb, key, index) ==
    IF tb.entries[index].occupied
    THEN IF StrnEqual(tb.entries[index].key, key, KEY_SIZE)
         THEN -1
         ELSE insert_probe(tb, key, (index + 1) % tb.capacity)
    ELSE index

\* The slot at which the probe loop of d_table_insert finds the key.
RECURSIVE found_at(_, _, _)
found_at(tb, key, index) ==
    IF StrnEqual(tb.entries[index].key, key, KEY_SIZE)
    THEN index
    ELSE found_at(tb, key, (index + 1) % tb.capacity)

\* d_table_insert that stores the new value over the old one when the key
\* is already present.
d_table_insert_updating(tb, t, key, value) ==
    IF t = NULL \/ key = NULL_KEY
    THEN [table |-> tb, ret |-> D_TABLE_INVALID_PARAM]
    ELSE IF tb.count >= tb.capacity
    THEN [table |-> tb, ret |-> D_TABLE_FULL]
    ELSE LET index == insert_probe(tb, key, HomeSlot[key][tb.capacity])
         IN  IF index = -1
             THEN [table |-> [tb EXCEPT
                       !.entries[found_at(tb, key, HomeSlot[key][tb.capacity])].value = value],
                   ret |-> D_TABLE_KEY_EXISTS]
             ELSE [table |-> [tb EXCEPT !.entries[index] =
                                            [key |-> StoredKey(key),
                                             value |-> value,
                                             occupied |-> TRUE],
                                        !.count = @ + 1],
                   ret |-> D_TABLE_OK]

\* d_table_insert with count++ moved in front of the capacity test.
d_table_insert_counting(tb, t, key, value) ==
    IF t = NULL \/ key = NULL_KEY
    THEN [table |-> tb, ret |-> D_TABLE_INVALID_PARAM]
    ELSE IF tb.count >= tb.capacity
    THEN [table |-> [tb EXCEPT !.count = @ + 1], ret |-> D_TABLE_FULL]
    ELSE LET index == insert_probe(tb, key, HomeSlot[key][tb.capacity])
         IN  IF index = -1
             THEN [table |-> tb, ret |-> D_TABLE_KEY_EXISTS]
             ELSE [table |-> [tb EXCEPT !.entries[index] =
                                            [key |-> StoredKey(key),
                                             value |-> value,
                                             occupied |-> TRUE],
                                        !.count = @ + 1],
                   ret |-> D_TABLE_OK]

d_table_insert(tb, t, key, value) ==
    IF t = NULL \/ key = NULL_KEY
    THEN [table |-> tb, ret |-> D_TABLE_INVALID_PARAM]
    ELSE IF tb.count >= tb.capacity
    THEN [table |-> tb, ret |-> D_TABLE_FULL]
    ELSE LET index == insert_probe(tb, key, HomeSlot[key][tb.capacity])
         IN  IF index = -1
             THEN [table |-> tb, ret |-> D_TABLE_KEY_EXISTS]
             ELSE [table |-> [tb EXCEPT !.entries[index] =
                                            [key |-> StoredKey(key),
                                             value |-> value,
                                             occupied |-> TRUE],
                                        !.count = @ + 1],
                   ret |-> D_TABLE_OK]

\* The probe loop of d_table_get from index on: the slot that holds the key,
\* or -1 when the loop ends without finding it.
RECURSIVE get_probe(_, _, _, _)
get_probe(tb, key, index, start_index) ==
    IF ~tb.entries[index].occupied
    THEN -1
    ELSE IF StrnEqual(tb.entries[index].key, key, KEY_SIZE)
    THEN index
    ELSE LET next == (index + 1) % tb.capacity
         IN  IF next = start_index THEN -1
             ELSE get_probe(tb, key, next, start_index)

\* d_table_get that clears *out_value when the key is not found.
d_table_get_clearing(tb, t, key, out, ov) ==
    IF t = NULL \/ key = NULL_KEY \/ out = NULL
    THEN [out_value |-> ov, ret |-> D_TABLE_INVALID_PARAM]
    ELSE LET start_index == HomeSlot[key][tb.capacity]
             index == get_probe(tb, key, start_index, start_index)
         IN  IF index = -1
             THEN [out_value |-> 0, ret |-> D_TABLE_NOT_FOUND]
             ELSE [out_value |-> tb.entries[index].value, ret |-> D_TABLE_OK]

\* d_table_get; ov is what *out_value holds when the call is made.
d_table_get(tb, t, key, out, ov) ==
    IF t = NULL \/ key = NULL_KEY \/ out = NULL
    THEN [out_value |-> ov, ret |-> D_TABLE_INVALID_PARAM]
    ELSE LET start_index == HomeSlot[key][tb.capacity]
             index == get_probe(tb, key, start_index, start_index)
         IN  IF index = -1
             THEN [out_value |-> ov, ret |-> D_TABLE_NOT_FOUND]
             ELSE [out_value |-> tb.entries[index].value, ret |-> D_TABLE_OK]

\* The values the callers insert (tests/unit/test_hash_basic.c).
Values == {10, 20}
\* Pool sizes: every whole number of entries up to MaxCap, with and without
\* a tail too short for one more entry.
BufferSizes == {c * SIZEOF_ENTRY + r : c \in 0 .. MaxCap, r \in {0, SIZEOF_ENTRY - 1}}

InitTable ==
    /\ pc = "call"
    /\ view = [v \in Views |-> Bound(NULL, 0, 0)]
    /\ mem = [b \in Bufs |-> SentinelBuf]
    /\ mem0 = mem
    /\ view0 = view
    /\ arg = [a |-> 0, b |-> 0]
    /\ call = [op |-> "none"]
    /\ ret = 0
    /\ SingleThreaded
    /\ TableUnused

TableInit ==
    /\ pc = "call"
    /\ \E t \in {"table", NULL}, buffer \in {"pool", NULL}, buffer_size \in BufferSizes :
           LET r == d_table_init(table, t, buffer, buffer_size)
           IN  /\ table' = r.table
               /\ ret' = r.ret
               /\ pc' = IF r.ret = D_TABLE_OK THEN "ready" ELSE "call"
               /\ call' = [op |-> "d_table_init", table |-> t, buffer |-> buffer,
                           buffer_size |-> buffer_size]
    /\ table0' = table
    /\ UNCHANGED <<out_value, inserted, table2, trace>>
    /\ UNCHANGED <<mem, view, mem0, view0, arg, thr>>

TableInsert ==
    /\ pc = "ready"
    /\ \E t \in {"table", NULL}, key \in Keys \cup {NULL_KEY}, value \in Values :
           LET r == d_table_insert(table, t, key, value)
           IN  /\ table' = r.table
               /\ ret' = r.ret
               /\ inserted' = IF r.ret = D_TABLE_OK
                              THEN (key :> value) @@ inserted
                              ELSE inserted
               /\ call' = [op |-> "d_table_insert", table |-> t, key |-> key,
                           value |-> value, known |-> key \in DOMAIN inserted]
    /\ table0' = table
    /\ UNCHANGED <<pc, out_value, table2, trace>>
    /\ UNCHANGED <<mem, view, mem0, view0, arg, thr>>

TableGet ==
    /\ pc = "ready"
    /\ \E t \in {"table", NULL}, key \in Keys \cup {NULL_KEY}, out \in {"out_value", NULL} :
           LET r == d_table_get(table, t, key, out, out_value)
           IN  /\ out_value' = r.out_value
               /\ ret' = r.ret
               /\ call' = [op |-> "d_table_get", table |-> t, key |-> key,
                           out |-> out, out0 |-> out_value]
    /\ table0' = table
    /\ UNCHANGED <<pc, table, inserted, table2, trace>>
    /\ UNCHANGED <<mem, view, mem0, view0, arg, thr>>

NextTable == TableInit \/ TableInsert \/ TableGet

SpecTable == InitTable /\ [][NextTable]_vars

\* A call of op, with a table and a key, has returned.
TableCalled(op) ==
    /\ pc = "ready"
    /\ call.op = op
    /\ call.table # NULL
    /\ call.key # NULL_KEY

\* Some insert of a key longer than the 31 characters an entry holds has
\* returned D_TABLE_OK.
LongKeyInserted == \E k \in DOMAIN inserted : Len(k) > KEY_SIZE - 1

\* C19: d_table_get(k) for a key k of any length whose insert returned
\* D_TABLE_OK with value v returns D_TABLE_OK and writes v to *out_value.
C19_InsertedKeyIsFound ==
    (TableCalled("d_table_get") /\ call.out # NULL /\ call.key \in DOMAIN inserted)
        => (ret = D_TABLE_OK /\ out_value = inserted[call.key])

\* What holds of C19: as long as every key inserted fits the 31 characters
\* of an entry, a key that was inserted is found with its value.
InsertedKeyIsFoundUnlessLong ==
    LongKeyInserted \/ C19_InsertedKeyIsFound

\* The call left the table's count, every slot's occupied flag and the
\* value stored for the key as they were.
KeptFor(key) ==
    /\ table.count = table0.count
    /\ \A i \in DOMAIN table0.entries :
           /\ table.entries[i].occupied = table0.entries[i].occupied
           /\ (table0.entries[i].occupied /\ table0.entries[i].key = StoredKey(key))
                  => table.entries[i].value = table0.entries[i].value

\* C20: d_table_insert(k, v2) for a key k that was already inserted
\* successfully returns D_TABLE_KEY_EXISTS and leaves the table unchanged, in
\* every table state, a full table included.
C20_DuplicateInsertRejected ==
    (TableCalled("d_table_insert") /\ call.known)
        => (ret = D_TABLE_KEY_EXISTS /\ KeptFor(call.key))

\* What holds of C20: as long as every key inserted fits the 31 characters
\* of an entry, a second insert of a key returns D_TABLE_KEY_EXISTS when the
\* table has a free slot and D_TABLE_FULL when it has none, and the table is
\* left as it was.
DuplicateInsertLeavesTable ==
    (TableCalled("d_table_insert") /\ call.known /\ ~LongKeyInserted)
        => /\ table = table0
           /\ ret = IF table0.count >= table0.capacity
                    THEN D_TABLE_FULL
                    ELSE D_TABLE_KEY_EXISTS

\* C21: d_table_insert on a table whose count equals its capacity returns
\* D_TABLE_FULL and changes no slot and not count; count never exceeds
\* capacity.
C21_FullTableRejectsInsert ==
    /\ table.count <= table.capacity
    /\ (TableCalled("d_table_insert") /\ table0.count = table0.capacity)
           => (ret = D_TABLE_FULL /\ table = table0)

\* An insert of a new key into a full table of two entries has returned.
C21_Witness ==
    /\ TableCalled("d_table_insert")
    /\ table0.count = table0.capacity
    /\ table0.capacity = MaxCap
    /\ ~call.known
    /\ ret = D_TABLE_FULL

\* A d_table_get with a place for the value has returned.
GetCalled == TableCalled("d_table_get") /\ call.out # NULL

\* The lookup found nothing and changed nothing.
FailedCleanly ==
    /\ ret = D_TABLE_NOT_FOUND
    /\ out_value = call.out0
    /\ table = table0

\* C22 as stated: d_table_get(k) for a key k that was never successfully
\* inserted returns D_TABLE_NOT_FOUND and leaves *out_value and the table
\* unchanged.
C22_AbsentKeyNotFound ==
    (GetCalled /\ call.key \notin DOMAIN inserted) => FailedCleanly

\* C22, amended: d_table_get(k) returns D_TABLE_NOT_FOUND and leaves
\* *out_value and the table unchanged when no successfully inserted key has
\* the first 31 characters of k.
C22_UnstoredKeyNotFound ==
    (GetCalled /\ \A k \in DOMAIN inserted : StoredKey(k) # StoredKey(call.key))
        => FailedCleanly

\* A lookup of a key that shares its stored form with no inserted key has
\* returned, on a full table of two entries, with a value from an earlier
\* lookup in *out_value.
C22_Witness ==
    /\ GetCalled
    /\ \A k \in DOMAIN inserted : StoredKey(k) # StoredKey(call.key)
    /\ table.count = table.capacity
    /\ table.capacity = MaxCap
    /\ call.out0 # 0
    /\ ret = D_TABLE_NOT_FOUND
    /\ out_value = call.out0

\* The slots of tb whose occupied flag is set.
OccupiedSlots(tb) == {i \in DOMAIN tb.entries : tb.entries[i].occupied}

\* The slots the last call changed.
ChangedSlots == {i \in DOMAIN table0.entries : table.entries[i] # table0.entries[i]}

\* C28: count equals the number of occupied slots; a successful insert
\* raises both by exactly one, a slot once occupied keeps its key and value,
\* and no other slot changes.
C28_CountMatchesOccupied ==
    /\ table.count = Cardinality(OccupiedSlots(table))
    /\ TableCalled("d_table_insert")
           => /\ \A i \in OccupiedSlots(table0) : table.entries[i] = table0.entries[i]
              /\ IF ret = D_TABLE_OK
                 THEN /\ table.count = table0.count + 1
                      /\ Cardinality(OccupiedSlots(table)) =
                             Cardinality(OccupiedSlots(table0)) + 1
                      /\ Cardinality(ChangedSlots) = 1
                      /\ ChangedSlots \subseteq OccupiedSlots(table)
                 ELSE table = table0

\* A successful insert into a table that already held an entry has
\* returned.
C28_Witness ==
    /\ TableCalled("d_table_insert")
    /\ ret = D_TABLE_OK
    /\ table0.count = 1
    /\ table.count = 2
    /\ Cardinality(OccupiedSlots(table)) = 2

\* C29: no two occupied slots hold the same stored key, whatever the length
\* of the keys inserted.
C29_NoDuplicateStoredKeys ==
    \A i, j \in OccupiedSlots(table) :
        table.entries[i].key = table.entries[j].key => i = j

\* What holds of C29: as long as every key inserted fits the 31 characters
\* of an entry, no two occupied slots hold the same stored key.
NoDuplicateStoredKeysUnlessLong ==
    LongKeyInserted \/ C29_NoDuplicateStoredKeys

(***************************************************************************)
(* d_table_iterate                                                         *)
(***************************************************************************)
\* The for loop of d_table_iterate that calls back for every slot, occupied
\* or not.
RECURSIVE iterate_every_slot(_, _, _)
iterate_every_slot(tb, i, log) ==
    IF i < tb.capacity
    THEN iterate_every_slot(tb, i + 1,
             Append(log, [key |-> tb.entries[i].key, value |-> tb.entries[i].value]))
    ELSE log

\* The for loop of d_table_iterate from slot i on; log holds the callbacks
\* made so far, each with the key and the value it was handed.
RECURSIVE iterate_from(_, _, _)
iterate_from(tb, i, log) ==
    IF i < tb.capacity
    THEN IF tb.entries[i].occupied
         THEN iterate_from(tb, i + 1,
                  Append(log, [key |-> tb.entries[i].key,
                               value |-> tb.entries[i].value]))
         ELSE iterate_from(tb, i + 1, log)
    ELSE log

\* d_table_iterate: the callbacks it makes, in order.
d_table_iterate(tb, t, callback) ==
    IF t = NULL \/ callback = NULL
    THEN <<>>
    ELSE iterate_from(tb, 0, <<>>)

TableIterate ==
    /\ pc = "ready"
    /\ \E t \in {"table", NULL}, callback \in {"callback", NULL} :
           /\ trace' = d_table_iterate(table, t, callback)
           /\ call' = [op |-> "d_table_iterate", table |-> t, callback |-> callback]
    /\ table0' = table
    /\ UNCHANGED <<pc, ret, table, out_value, inserted, table2>>
    /\ UNCHANGED <<mem, view, mem0, view0, arg, thr>>

NextStore == TableInit \/ TableInsert \/ TableIterate

SpecStore == InitTable /\ [][NextStore]_vars

\* d_table_iterate, with a table and a callback, has returned.
IterateCalled ==
    /\ pc = "ready"
    /\ call.op = "d_table_iterate"
    /\ call.table # NULL
    /\ call.callback # NULL

\* The occupied slot with n - 1 occupied slots below it.
NthOccupied(tb, n) ==
    CHOOSE i \in OccupiedSlots(tb) :
        Cardinality({j \in OccupiedSlots(tb) : j < i}) = n - 1

\* C23: d_table_iterate calls back exactly once for each occupied slot and
\* never for an unoccupied one, in ascending slot index, with the slot's
\* stored key and value; the number of callbacks equals count.
C23_IterateVisitsOccupiedInOrder ==
    IterateCalled
        => /\ Len(trace) = table.count
           /\ Len(trace) = Cardinality(OccupiedSlots(table))
           /\ \A n \in 1 .. Len(trace) :
                  LET e == table.entries[NthOccupied(table, n)]
                  IN  trace[n] = [key |-> e.key, value |-> e.value]
           /\ table = table0

\* d_table_iterate has returned from a table whose slot 0 is free and whose
\* slot 1 is occupied.
C23_Witness ==
    /\ IterateCalled
    /\ table.capacity = MaxCap
    /\ ~table.entries[0].occupied
    /\ table.entries[1].occupied
    /\ Len(trace) = 1

(***************************************************************************)
(* d_table_init on a pool and a d_table_t that hold anything.              *)
(***************************************************************************)
\* What a slot of a pool can hold before d_table_init: zeroes, an entry of
\* an earlier table, or bytes that are no entry at all.
DirtyEntries ==
    {ZeroEntry,
     [key |-> Key1, value |-> 20, occupied |-> TRUE],
     [key |-> Key31, value |-> -1, occupied |-> FALSE]}

\* A d_table_t that was never initialised, on a pool of MaxCap slots.
DirtyTables ==
    [entries : [0 .. (MaxCap - 1) -> DirtyEntries],
     capacity : {0, MaxCap + 5},
     count : {0, MaxCap + 7}]

InitPool ==
    /\ pc = "call"
    /\ view = [v \in Views |-> Bound(NULL, 0, 0)]
    /\ mem = [b \in Bufs |-> SentinelBuf]
    /\ mem0 = mem
    /\ view0 = view
    /\ arg = [a |-> 0, b |-> 0]
    /\ call = [op |-> "none"]
    /\ ret = 0
    /\ SingleThreaded
    /\ table \in DirtyTables
    /\ table0 = table
    /\ out_value = 0
    /\ inserted = <<>>
    /\ table2 = NoTable
    /\ trace = <<>>

\* d_table_init called again, on a table that is initialised.
TableReinit ==
    /\ pc = "ready"
    /\ \E t \in {"table", NULL}, buffer \in {"pool", NULL}, buffer_size \in BufferSizes :
           LET r == d_table_init(table, t, buffer, buffer_size)
           IN  /\ table' = r.table
               /\ ret' = r.ret
               /\ pc' = IF r.ret = D_TABLE_OK THEN "ready" ELSE "call"
               /\ inserted' = IF r.ret = D_TABLE_OK THEN <<>> ELSE inserted
               /\ call' = [op |-> "d_table_init", table |-> t, buffer |-> buffer,
                           buffer_size |-> buffer_size]
    /\ table0' = table
    /\ UNCHANGED <<out_value, table2, trace>>
    /\ UNCHANGED <<mem, view, mem0, view0, arg, thr>>

NextInit == TableInit \/ TableReinit

SpecInit == InitPool /\ [][NextInit]_vars

\* C24: d_table_init returns D_TABLE_INVALID_PARAM when table or buffer is
\* null or buffer_size is smaller than one entry; otherwise it returns
\* D_TABLE_OK and leaves count 0, capacity buffer_size / sizeof(d_entry_t),
\* which is positive, and every slot unoccupied with zeroed key and value,
\* whatever the buffer held before.
C24_InitZeroesPool ==
    call.op = "d_table_init"
        => IF \/ call.table = NULL
              \/ call.buffer = NULL
              \/ call.buffer_size < SIZEOF_ENTRY
           THEN ret = D_TABLE_INVALID_PARAM
           ELSE /\ ret = D_TABLE_OK
                /\ table.count = 0
                /\ table.capacity = call.buffer_size \div SIZEOF_ENTRY
                /\ table.capacity > 0
                /\ DOMAIN table.entries = 0 .. (table.capacity - 1)
                /\ \A i \in DOMAIN table.entries :
                       /\ ~table.entries[i].occupied
                       /\ table.entries[i].key = <<>>
                       /\ table.entries[i].value = 0

\* d_table_init has returned D_TABLE_OK on a pool whose slots held entries.
C24_Witness ==
    /\ call.op = "d_table_init"
    /\ ret = D_TABLE_OK
    /\ table.capacity = MaxCap
    /\ DOMAIN table0.entries = DOMAIN table.entries
    /\ \A i \in DOMAIN table0.entries : table0.entries[i].occupied
    /\ table0.count > 0

(***************************************************************************)
(* The same calls made on two tables, each on a pool of its own            *)
(* (tests/unit/test_hash_consistency.c).  Each call is made on the first   *)
(* table, then on the second.                                              *)
(***************************************************************************)
\* The pools of n slots, holding anything.
Pools(n) == [0 .. (n - 1) -> DirtyEntries]

InitTwin ==
    /\ pc = "call"
    /\ view = [v \in Views |-> Bound(NULL, 0, 0)]
    /\ mem = [b \in Bufs |-> SentinelBuf]
    /\ mem0 = mem
    /\ view0 = view
    /\ arg = [a |-> 0, b |-> 0]
    /\ call = [op |-> "none"]
    /\ ret = 0
    /\ SingleThreaded
    /\ \E n \in 0 .. MaxCap :
           \E p1 \in Pools(n), p2 \in Pools(n) :
               /\ table = [entries |-> p1, capacity |-> 0, count |-> 0]
               /\ table2 = [entries |-> p2, capacity |-> MaxCap + 5, count |-> MaxCap + 7]
    /\ table0 = table
    /\ out_value = 0
    /\ inserted = <<>>
    /\ trace = <<>>

\* The sizes of a buffer of n slots.
SizesOf(n) == {n * SIZEOF_ENTRY, n * SIZEOF_ENTRY + (SIZEOF_ENTRY - 1)}

TwinInitFirst ==
    /\ pc = "call"
    /\ \E buffer_size \in SizesOf(Cardinality(DOMAIN table.entries)) :
           LET r == d_table_init(table, "table", "pool", buffer_size)
           IN  /\ table' = r.table
               /\ ret' = r.ret
               /\ call' = [op |-> "d_table_init", table |-> "table", buffer |-> "pool",
                           buffer_size |-> buffer_size, run |-> 1,
                           pools_differed |-> table.entries # table2.entries]
    /\ pc' = "second"
    /\ table0' = table
    /\ UNCHANGED <<table2, out_value, inserted, trace>>
    /\ UNCHANGED <<mem, view, mem0, view0, arg, thr>>

TwinInitSecond ==
    /\ pc = "second"
    /\ call.op = "d_table_init"
    /\ LET r == d_table_init(table2, "table2", "pool2", call.buffer_size)
       IN  /\ table2' = r.table
           /\ ret' = r.ret
           /\ pc' = IF r.ret = D_TABLE_OK THEN "ready" ELSE "call"
           /\ call' = [call EXCEPT !.run = 2] @@ [first |-> ret]
    /\ table0' = table2
    /\ UNCHANGED <<table, out_value, inserted, trace>>
    /\ UNCHANGED <<mem, view, mem0, view0, arg, thr>>

TwinInsertFirst ==
    /\ pc = "ready"
    /\ \E key \in Keys, value \in Values :
           LET r == d_table_insert(table, "table", key, value)
           IN  /\ table' = r.table
               /\ ret' = r.ret
               /\ inserted' = IF r.ret = D_TABLE_OK
                              THEN (key :> value) @@ inserted
                              ELSE inserted
               /\ call' = [op |-> "d_table_insert", table |-> "table", key |-> key,
                           value |-> value, run |-> 1]
    /\ pc' = "second"
    /\ table0' = table
    /\ UNCHANGED <<table2, out_value, trace>>
    /\ UNCHANGED <<mem, view, mem0, view0, arg, thr>>

TwinInsertSecond ==
    /\ pc = "second"
    /\ call.op = "d_table_insert"
    /\ LET r == d_table_insert(table2, "table2", call.key, call.value)
       IN  /\ table2' = r.table
           /\ ret' = r.ret
           /\ call' = [call EXCEPT !.run = 2] @@ [first |-> ret]
    /\ pc' = "ready"
    /\ table0' = table2
    /\ UNCHANGED <<table, out_value, inserted, trace>>
    /\ UNCHANGED <<mem, view, mem0, view0, arg, thr>>

NextTwin == TwinInitFirst \/ TwinInitSecond \/ TwinInsertFirst \/ TwinInsertSecond

SpecTwin == InitTwin /\ [][NextTwin]_vars

\* The call has been made on both tables.
BothTablesCalled == call.op # "none" /\ call.run = 2

\* C25: the same sequence of d_table_init and d_table_insert calls on two
\* buffers of equal size, whatever they held before, leaves the buffers
\* identical slot for slot and returns the same status at every step.
C25_TwoRunsIdentical ==
    BothTablesCalled
        => /\ ret = call.first
           /\ DOMAIN table.entries = DOMAIN table2.entries
           /\ \A i \in DOMAIN table.entries :
                  /\ table.entries[i].key = table2.entries[i].key
                  /\ table.entries[i].value = table2.entries[i].value
                  /\ table.entries[i].occupied = table2.entries[i].occupied

\* Both tables were initialised on pools of two slots that held different
\* things.
C25_Witness ==
    /\ BothTablesCalled
    /\ call.op = "d_table_init"
    /\ call.pools_differed
    /\ ret = D_TABLE_OK
    /\ table.capacity = MaxCap

(***************************************************************************)
(* fx_matrix_mul, one access at a time, with the cells it touches logged   *)
(* in trace.                                                               *)
(***************************************************************************)
\* One access: the view whose cell is touched, how, and the cell's index.
Access(how, v, index) == [how |-> how, view |-> v, index |-> index]

InitOrder ==
    /\ pc = "run"
    /\ \E rows \in Dims, inner \in Dims, cols \in Dims :
           view = [v \in Views |->
                       CASE v = "A" -> Bound("buf_a", rows, inner)
                         [] v = "B" -> Bound("buf_b", inner, cols)
                         [] v = "C" -> Bound("buf_c", rows, cols)]
    /\ \E d \in {FracBuf, MinBuf} :
           mem = [b \in Bufs |-> IF b = "buf_c" THEN SentinelBuf ELSE d]
    /\ \E ubo \in UBOutcomes : call = [op |-> "fx_matrix_mul", ubo |-> ubo]
    /\ thr = [t \in {1} |->
                 [op |-> "fx_matrix_mul",
                  at |-> StartAt("fx_matrix_mul", view["A"], view["B"], view["C"]),
                  i |-> 0, j |-> 0, k |-> 0, val_a |-> 0, sum |-> I64(0)]]
    /\ mem0 = mem
    /\ view0 = view
    /\ arg = [a |-> 0, b |-> 0]
    /\ ret = 0
    /\ TableUnused

\* The read of A->data[i * A->cols + k].
MulReadA ==
    /\ Running(1, "fx_matrix_mul")
    /\ thr[1].at = "read_a"
    /\ LET me == thr[1]
           A == view["A"]
           index == me.i * A.cols + me.k
       IN  /\ thr' = [thr EXCEPT ![1].val_a = mem[A.data][index], ![1].at = "read_b"]
           /\ trace' = Append(trace, Access("read", "A", index))
    /\ UNCHANGED <<pc, mem, view, mem0, view0, arg, call, ret>>
    /\ UNCHANGED <<table, table0, out_value, inserted, table2>>

\* The read of B->data[k * B->cols + j], the product and sum += prod.
MulReadB ==
    /\ Running(1, "fx_matrix_mul")
    /\ thr[1].at = "read_b"
    /\ LET me == thr[1]
           A == view["A"]
           B == view["B"]
           index == me.k * B.cols + me.j
           prod == Mul64(me.val_a, mem[B.data][index])
       IN  /\ trace' = Append(trace, Access("read", "B", index))
           /\ IF Add64Overflows(me.sum, prod) /\ call.ubo = "trap"
              THEN /\ pc' = "trap"
                   /\ UNCHANGED thr
              ELSE /\ thr' = [thr EXCEPT ![1].k = me.k + 1,
                                         ![1].at = IF me.k + 1 < A.cols
                                                   THEN "read_a" ELSE "write",
                                         ![1].sum = Add64(me.sum, prod)]
                   /\ UNCHANGED pc
    /\ UNCHANGED <<mem, view, mem0, view0, arg, call, ret>>
    /\ UNCHANGED <<table, table0, out_value, inserted, table2>>

\* sum += FIXED_HALF and the write of C->data[i * C->cols + j].
MulWrite ==
    /\ Running(1, "fx_matrix_mul")
    /\ thr[1].at = "write"
    /\ LET me == thr[1]
           C == view["C"]
           index == me.i * C.cols + me.j
           next == MulPos(view["A"], view["B"], me.i, me.j + 1)
       IN  IF Add64Overflows(me.sum, I64(FIXED_HALF)) /\ call.ubo = "trap"
           THEN /\ pc' = "trap"
                /\ UNCHANGED <<thr, mem, trace>>
           ELSE /\ mem' = [mem EXCEPT ![C.data][index] = Quantize(me.sum)]
                /\ thr' = [thr EXCEPT ![1].at = next.at, ![1].i = next.i,
                                      ![1].j = next.j, ![1].k = 0,
                                      ![1].sum = I64(0)]
                /\ trace' = Append(trace, Access("write", "C", index))
                /\ UNCHANGED pc
    /\ UNCHANGED <<view, mem0, view0, arg, call, ret>>
    /\ UNCHANGED <<table, table0, out_value, inserted, table2>>

NextOrder == MulReadA \/ MulReadB \/ MulWrite

SpecOrder == InitOrder /\ [][NextOrder]_vars

\* The accesses of an rows x inner by inner x cols product in the order the
\* claim fixes: cells of out row by row, and for each cell the inner reads
\* of A and B with k ascending, then the one write.
FixedOrder(rows, inner, cols) ==
    LET perCell == 2 * inner + 1
    IN  [p \in 1 .. (rows * cols * perCell) |->
            LET q == (p - 1) \div perCell
                e == (p - 1) % perCell
                i == q \div cols
                j == q % cols
                k == e \div 2
            IN  IF e = perCell - 1 THEN Access("write", "C", i * cols + j)
                ELSE IF e % 2 = 0 THEN Access("read", "A", i * inner + k)
                ELSE Access("read", "B", k * cols + j)]

\* The fixed order for the views of the invocation.
Expected == FixedOrder(view["A"].rows, view["A"].cols, view["B"].cols)

\* The invocation is over: it returned, or the build aborted it.
MulOver == pc = "trap" \/ thr[1].at = "done"

\* C26: on compatible dimensions fx_matrix_mul writes the cells of out in
\* row-major order, each once, after A.cols multiply-accumulate steps with k
\* ascending; the sequence of cells read and written depends only on the
\* dimensions, never on the values, and no step is skipped or exits early.
C26_MulFixedOrder == MulOver => trace = Expected

\* What holds of C26: the accesses made so far are always the beginning of
\* the fixed order, and an invocation that returns has made them all.
MulFollowsFixedOrder ==
    /\ Len(trace) <= Len(Expected)
    /\ trace = SubSeq(Expected, 1, Len(trace))
    /\ (pc = "run" /\ thr[1].at = "done") => trace = Expected

(***************************************************************************)
(* Termination.  The caller does make the call it is about to make: weak   *)
(* fairness of the call.                                                   *)
(***************************************************************************)
SpecReturns == Spec /\ WF_vars(NextGemm)

\* C27: every operation eventually returns to its caller.
C27_EveryOperationReturns == <>(pc = "done")

\* What holds of C27 for fx_matrix_mul: every invocation comes to an end; it
\* returns, or the build aborts it at the overflowing sum += prod.
EveryOperationEnds == <>(pc \in {"done", "trap"})

\* What holds of C27 for the probe loop of d_table_insert: whenever it is
\* entered, that is with count below capacity, some slot is free for it to
\* stop at.
InsertProbeFindsFreeSlot ==
    (pc = "ready" /\ table.count < table.capacity)
        => \E i \in DOMAIN table.entries : ~table.entries[i].occupied

(***************************************************************************)
(* The three multiply-accumulate paths side by side: fx_matrix_mul, then   *)
(* fx_vector_dot on a row of A and a column of B copied into vectors of    *)
(* their own; and fx_vector_dot on one element against fixed_mul.          *)
(***************************************************************************)
\* Cells whose squares are just under half a unit of the last place each,
\* so that two of them round up together and down apart.
SmallBuf == [i \in Cells |-> 181]

\* The two vectors of one element for the scalar comparison, left at zero
\* while the matrices vary; the matrices are empty while the scalars vary.
InitAgree ==
    /\ pc = "call"
    /\ \E rows \in Dims, inner \in Dims, cols \in Dims,
          da \in {RampBuf(1), FracBuf, MinBuf, SmallBuf},
          db \in {RampBuf(5), FracBuf, MinBuf, SmallBuf},
          a0 \in Operands, b0 \in Operands :
           /\ \/ a0 = 0 /\ b0 = 0
              \/ rows = 0 /\ inner = 0 /\ cols = 0 /\ da = FracBuf /\ db = FracBuf
           /\ view = [v \in Views |->
                          CASE v = "A" -> Bound("buf_a", rows, inner)
                            [] v = "B" -> Bound("buf_b", inner, cols)
                            [] v = "C" -> Bound("buf_c", rows, cols)]
           /\ mem = [b \in PairBufs |->
                         CASE b = "buf_a" -> da
                           [] b = "buf_b" -> db
                           [] b \in {"buf_c", "buf_f"} -> SentinelBuf
                           [] b = "buf_d" -> [ZeroBuf EXCEPT ![0] = a0]
                           [] b = "buf_e" -> [ZeroBuf EXCEPT ![0] = b0]]
           /\ arg = [a |-> a0, b |-> b0]
    /\ \E ubo \in UBOutcomes : call = [op |-> "none", ubo |-> ubo]
    /\ mem0 = mem
    /\ view0 = view
    /\ ret = 0
    /\ SingleThreaded
    /\ TableUnused

\* fx_matrix_mul(&A, &B, &C).
AgreeMul ==
    /\ pc = "call"
    /\ call.op = "none"
    /\ LET r == fx_matrix_mul(mem, view, "A", "B", "C", call.ubo)
       IN  /\ mem' = r.mem
           /\ pc' = IF r.trap THEN "trap" ELSE "second"
           /\ call' = [op |-> "fx_matrix_mul", ubo |-> call.ubo]
    /\ UNCHANGED <<view, mem0, view0, arg, ret>>
    /\ UNCHANGED <<thr, tableVars>>

\* m with row i of A copied to buf_d and column j of B copied to buf_e.
Gathered(m, A, B, i, j) ==
    [m EXCEPT !["buf_d"] = [k \in Cells |->
                               IF k < A.cols THEN m[A.data][i * A.cols + k] ELSE @[k]],
              !["buf_e"] = [k \in Cells |->
                               IF k < A.cols THEN m[B.data][k * B.cols + j] ELSE @[k]]]

\* fx_vector_dot(buf_d, buf_e, A.cols) on row i of A and column j of B.
AgreeDot ==
    /\ pc = "second"
    /\ \E i \in 0 .. (view["A"].rows - 1), j \in 0 .. (view["B"].cols - 1) :
           LET m1 == Gathered(mem, view["A"], view["B"], i, j)
               r == fx_vector_dot(m1, "buf_d", "buf_e", view["A"].cols, call.ubo)
           IN  /\ mem' = m1
               /\ ret' = r.ret
               /\ pc' = IF r.trap THEN "trap" ELSE "done"
               /\ call' = [op |-> "fx_vector_dot", ubo |-> call.ubo, i |-> i, j |-> j,
                           len |-> view["A"].cols]
    /\ UNCHANGED <<view, mem0, view0, arg>>
    /\ UNCHANGED <<thr, tableVars>>

\* fx_vector_dot(buf_d, buf_e, 1) and fixed_mul(buf_d[0], buf_e[0]).
AgreeOne ==
    /\ pc = "call"
    /\ call.op = "none"
    /\ LET r == fx_vector_dot(mem, "buf_d", "buf_e", 1, call.ubo)
       IN  /\ ret' = r.ret
           /\ pc' = IF r.trap THEN "trap" ELSE "done"
           /\ call' = [op |-> "fx_vector_dot", ubo |-> call.ubo, len |-> 1,
                       fixed_mul |-> fixed_mul(mem["buf_d"][0], mem["buf_e"][0])]
    /\ UNCHANGED <<mem, view, mem0, view0, arg>>
    /\ UNCHANGED <<thr, tableVars>>

NextAgree == AgreeMul \/ AgreeDot \/ AgreeOne

SpecAgree == InitAgree /\ [][NextAgree]_vars

\* fx_vector_dot was called on a row of A and a column of B.
CellDotCalled == call.op = "fx_vector_dot" /\ "i" \in DOMAIN call

\* fx_vector_dot was called on one element.
OneDotCalled == call.op = "fx_vector_dot" /\ "fixed_mul" \in DOMAIN call

\* C30: each cell out[i,j] that fx_matrix_mul wrote equals fx_vector_dot on
\* row i of A and column j of B, and fx_vector_dot(a, b, 1) equals
\* fixed_mul(a[0], b[0]).
C30_PathsAgree ==
    /\ CellDotCalled
           => /\ pc = "done"
              /\ ret = mem["buf_c"][call.i * view["C"].cols + call.j]
    /\ OneDotCalled
           => /\ pc = "done"
              /\ ret = call.fixed_mul

\* fx_vector_dot has returned the value of a cell whose sum overflowed and
\* wrapped.
C30_Witness ==
    /\ CellDotCalled
    /\ pc = "done"
    /\ call.len = MaxDim
    /\ mem["buf_a"] = MinBuf
    /\ mem["buf_b"] = MinBuf
    /\ ret = mem["buf_c"][call.i * view["C"].cols + call.j]

====
